---- MODULE Spec2Model ----
(***************************************************************************)
(* A model of ndlocrlite-web: the page pipeline of the useOCRWorker hook    *)
(* (layout detection request, round-robin dispatch to the recognition       *)
(* workers, aggregation by id), the batch loop of App, the region job, the  *)
(* recognition worker, the OCR worker (initialize and processOCR), the      *)
(* model cache loader, the greedy decoder, recognizer selection and the     *)
(* layout post-processing with non-maximum suppression.                     *)
(***************************************************************************)
EXTENDS Integers, Sequences, FiniteSets, TLC

(***************************************************************************)
(* Bounds of the model.                                                     *)
(***************************************************************************)
MaxWorkers == 2
MaxRegions == 3
MaxPages == 2

VARIABLES
    nRecWorkers,      \* N_REC_WORKERS, and the length of recWorkersRef.current
    isReady,          \* useState isReady
    jobState,         \* useState jobState (status and stage)
    ocrWorkerReady,   \* closure flag of the mount effect
    recReadyCount,    \* closure counter of the mount effect
    recOnmessage,     \* per recognition worker: the handler in worker.onmessage
    recInbox,         \* per recognition worker: messages posted to it, in order
    recLoaded,        \* per recognition worker: position of REC_INIT, recognizers initialized
    ocrInit,          \* OCR worker: state of OCRWorker.initialize
    ocrInbox,         \* messages posted to the OCR worker
    batch,            \* the batch loop of App: next page index and position
    sessionResults,   \* ids of the pages whose result the batch loop kept
    page,             \* the processImage call in flight (or the last one)
    recErrorPages,    \* history: pages for whose REC_PROCESS a worker answered REC_ERROR
    recErrorPosted,   \* history: some recognition worker has posted a REC_ERROR
    regionJob,        \* the processRegion call: its listener and its promise
    ocrProcess,       \* OCR worker: position of processOCR for the region job
    modelCache,       \* model-loader: the 'models' store of IndexedDB, by name
    loadCalls,        \* model-loader: the loadModel calls in progress
    decoder,          \* TextRecognizer.decodeOutput: its input and its result
    selection,        \* selectRecognizer of both workers: categories and choices
    layout,           \* LayoutDetector.postprocessOutput: model output and regions
    suppression,      \* LayoutDetector.nms: detections and what it kept
    partition,        \* runRecognition: the regions of a page and their chunks
    ocrJob,           \* OCRWorker: its fields, its message handlers, its messages
    recJob,           \* recognition worker: one REC_PROCESS message and its answer
    lifecycle,        \* a worker and its TERMINATE / REC_TERMINATE message
    initObject,       \* an object with an initialize method and the calls of it
    app,              \* App: its state, its batch loops and the user's actions
    equiv             \* one list of regions recognized in-process and by the worker pool

pipeVars == <<nRecWorkers, isReady, jobState, ocrWorkerReady, recReadyCount,
              recOnmessage, recInbox, recLoaded, ocrInit, ocrInbox,
              batch, sessionResults, page, recErrorPages, recErrorPosted,
              regionJob, ocrProcess>>

fnVars == <<modelCache, loadCalls, decoder, selection, layout, suppression,
            partition, ocrJob, recJob, lifecycle, initObject, app, equiv>>

vars == <<pipeVars, fnVars>>

(***************************************************************************)
(* Small helpers.                                                           *)
(***************************************************************************)
Range(s) == {s[i] : i \in 1..Len(s)}

RECURSIVE FlatSeq(_)
FlatSeq(ss) == IF ss = <<>> THEN <<>> ELSE Head(ss) \o FlatSeq(Tail(ss))

Min2(a, b) == IF a < b THEN a ELSE b
Max2(a, b) == IF a > b THEN a ELSE b

(***************************************************************************)
(* Inputs of the page pipeline. A region is abstracted to its bounding box  *)
(* (one token for x, y, width, height, confidence, classId) and its         *)
(* charCountCategory; the cropped image of a region is the token of its     *)
(* box. The text a recognizer reads in a crop is a function of the crop.    *)
(***************************************************************************)
BoxChoices == {"boxA", "boxB"}
CategoryChoices == {1, 3}

OtherBox(b) == IF b = "boxA" THEN "boxB" ELSE "boxA"

\* the region lists a page can have: n regions of one category whose boxes
\* alternate, starting with either box
RegionList(n, first, c) ==
    [k \in 1..n |-> [bbox |-> IF k % 2 = 1 THEN first ELSE OtherBox(first),
                     charCountCategory |-> c]]

RegionLists ==
    {RegionList(n, first, c) : n \in 0..MaxRegions, first \in BoxChoices,
                               c \in CategoryChoices}

TextOf(crop) == IF crop = "boxA" THEN "a" ELSE "b"

WorkerChoices == {n \in 2..8 : n <= MaxWorkers}
Workers == 1..nRecWorkers
PageIds == 0..(MaxPages - 1)

NoPage == [id |-> -1, listening |-> FALSE, promise |-> "none",
           textRegions |-> <<>>, dispatch |-> <<>>, chunkResults |-> <<>>,
           recognitionResults |-> <<>>, result |-> [textBlocks |-> <<>>, fullText |-> ""],
           layout |-> "none", chunkPage |-> <<>>, arrived |-> <<>>,
           imageData |-> "attached", croppedImages |-> <<>>, readDetached |-> FALSE]

\* In a page record, layout, chunkPage and arrived are history: what LAYOUT_DONE
\* reported, the page whose REC_PROCESS caused the REC_COMPLETE that settled the
\* dispatch promise of each worker, and the workers in the order their
\* REC_COMPLETE was consumed.

initialJobState == [status |-> "idle", stage |-> ""]

(***************************************************************************)
(* N_REC_WORKERS = Math.min(Math.max(hardwareConcurrency ?? 4, 2), 8).      *)
(* hc = -1 stands for an absent value.                                      *)
(***************************************************************************)
NRecWorkersUnbounded(hc) == Max2(IF hc = -1 THEN 4 ELSE hc, 2)
N_REC_WORKERS(hc) == Min2(Max2(IF hc = -1 THEN 4 ELSE hc, 2), 8)

(***************************************************************************)
(* runRecognition: the round-robin partition. chunks[i % N] receives the    *)
(* job {id: i, croppedImageData: croppedImages[i], charCountCategory}.      *)
(* Region i of the code is textRegions[i + 1] here.                         *)
(***************************************************************************)
Job(i, textRegions, croppedImages) ==
    [id |-> i, croppedImageData |-> croppedImages[i + 1],
     charCountCategory |-> textRegions[i + 1].charCountCategory]

RECURSIVE ChunkFrom(_, _, _, _, _)
ChunkFrom(i, w, N, textRegions, croppedImages) ==
    IF i >= Len(textRegions) THEN <<>>
    ELSE IF i % N = w
         THEN <<Job(i, textRegions, croppedImages)>>
              \o ChunkFrom(i + 1, w, N, textRegions, croppedImages)
         ELSE ChunkFrom(i + 1, w, N, textRegions, croppedImages)

\* chunks[w - 1] of the code: the job list of worker w (workers are 1..N here)
ChunkShifted(w, N, textRegions, croppedImages) ==
    ChunkFrom(0, w % N, N, textRegions, croppedImages)
Chunk(w, N, textRegions, croppedImages) ==
    ChunkFrom(0, w - 1, N, textRegions, croppedImages)

(***************************************************************************)
(* runRecognition: aggregation. resultMap = new Map(allResults.map(r =>     *)
(* [r.id, r])): a later entry with the same id replaces an earlier one.     *)
(***************************************************************************)
RECURSIVE ResultMapGetFrom(_, _, _)
ResultMapGetFrom(allResults, i, k) ==
    IF k = 0 THEN [found |-> FALSE, text |-> ""]
    ELSE IF allResults[k].id = i THEN [found |-> TRUE, text |-> allResults[k].text]
    ELSE ResultMapGetFrom(allResults, i, k - 1)

ResultMapGet(allResults, i) == ResultMapGetFrom(allResults, i, Len(allResults))

\* resultMap.get(i)?.text ?? ''
ResultTextByPosition(allResults, i) ==
    IF i + 1 <= Len(allResults) THEN allResults[i + 1].text ELSE ""
ResultTextOrLast(allResults, i) ==
    LET r == ResultMapGet(allResults, i)
    IN  IF r.found THEN r.text
        ELSE IF allResults # <<>> THEN allResults[Len(allResults)].text ELSE ""
ResultText(allResults, i) ==
    LET r == ResultMapGet(allResults, i) IN IF r.found THEN r.text ELSE ""

\* textRegions.map((region, i) => ({...region, text, readingOrder: i + 1}))
RecognitionResultsAsFlattened(textRegions, allResults) ==
    [k \in 1..Len(textRegions) |->
        [bbox |-> textRegions[k].bbox,
         charCountCategory |-> textRegions[k].charCountCategory,
         text |-> IF k <= Len(allResults) THEN allResults[k].text ELSE "",
         readingOrder |-> k]]
RecognitionResults(textRegions, allResults) ==
    [k \in 1..Len(textRegions) |->
        [bbox |-> textRegions[k].bbox,
         charCountCategory |-> textRegions[k].charCountCategory,
         text |-> ResultText(allResults, k - 1),
         readingOrder |-> k]]

\* orderedResults.filter(b => b.text).map(b => b.text).join('\n')
RECURSIVE JoinLines(_)
JoinLines(texts) ==
    IF texts = <<>> THEN ""
    ELSE IF Len(texts) = 1 THEN texts[1]
    ELSE texts[1] \o "\n" \o JoinLines(Tail(texts))

FullTextOfAllBlocks(blocks) ==
    JoinLines([k \in 1..Len(blocks) |-> blocks[k].text])
FullText(blocks) ==
    JoinLines(SelectSeq([k \in 1..Len(blocks) |-> blocks[k].text], LAMBDA t : t # ""))

(***************************************************************************)
(* ReadingOrderProcessor.process: the file is not part of the sources. A    *)
(* total order of the blocks (here the given order or its reverse), with    *)
(* readingOrder set to the position.                                        *)
(***************************************************************************)
Orders(n) == {[k \in 1..n |-> k], [k \in 1..n |-> n + 1 - k]}

ReadingOrderProcess(blocks, perm) ==
    [k \in 1..Len(blocks) |-> [blocks[perm[k]] EXCEPT !.readingOrder = k]]


(***************************************************************************)
(* Messages. Between a worker and the hook, messages are delivered in the   *)
(* order posted. A message a worker posts and its delivery to the hook are  *)
(* one step of the model: a worker's step depends only on its own state and *)
(* on the head of its inbox, so delaying it to the moment of delivery       *)
(* changes neither the worker's run nor anything the hook observes.         *)
(* Messages posted to a worker wait in its inbox until the worker takes     *)
(* them.                                                                    *)
(***************************************************************************)
RecMsg(type, jobs, results, p) ==
    [type |-> type, jobs |-> jobs, results |-> results, page |-> p]

\* id = -1 stands for a message without id
OcrMsg(type, id, stage, textRegions) ==
    [type |-> type, id |-> id, stage |-> stage, textRegions |-> textRegions,
     croppedImages |-> [k \in 1..Len(textRegions) |-> textRegions[k].bbox]]

\* the id of the region job (`region-${Date.now()}`): no page has it
RegionId == MaxPages

NoRegionJob == [listening |-> FALSE, promise |-> "none"]

\* the message listener of processRegion: messages of another id and
\* OCR_PROGRESS are ignored, OCR_COMPLETE resolves, OCR_ERROR rejects
RegionHandlerAnyId(job, msg) ==
    IF ~job.listening THEN job
    ELSE IF msg.type = "OCR_COMPLETE" THEN [listening |-> FALSE, promise |-> "resolved"]
    ELSE IF msg.type = "OCR_ERROR" THEN [listening |-> FALSE, promise |-> "rejected"]
    ELSE job
RegionHandler(job, msg) ==
    IF ~job.listening \/ msg.id # RegionId THEN job
    ELSE IF msg.type = "OCR_COMPLETE" THEN [listening |-> FALSE, promise |-> "resolved"]
    ELSE IF msg.type = "OCR_ERROR" THEN [listening |-> FALSE, promise |-> "rejected"]
    ELSE job

NullHandler == [kind |-> "null", page |-> -1]
InitHandler == [kind |-> "init", page |-> -1]
DispatchHandler(p) == [kind |-> "dispatch", page |-> p]

(***************************************************************************)
(* Init: the state after the mount effect of useOCRWorker has run: the OCR  *)
(* worker and N recognition workers exist, INITIALIZE and REC_INIT are      *)
(* posted, every recognition worker has the REC_READY handler.              *)
(***************************************************************************)
PipeInit ==
    /\ nRecWorkers \in WorkerChoices
    /\ isReady = FALSE
    /\ jobState = initialJobState
    /\ ocrWorkerReady = FALSE
    /\ recReadyCount = 0
    /\ recOnmessage = [w \in 1..nRecWorkers |-> InitHandler]
    /\ recInbox = [w \in 1..nRecWorkers |-> <<RecMsg("REC_INIT", <<>>, <<>>, -1)>>]
    /\ recLoaded = [w \in 1..nRecWorkers |-> [pc |-> "idle", k |-> 0]]
    /\ ocrInit = "idle"
    /\ ocrInbox = <<OcrMsg("INITIALIZE", -1, "", <<>>)>>
    /\ batch = [pc |-> "idle", i |-> 0, total |-> 0, called |-> <<>>, outcomes |-> <<>>]
    /\ sessionResults = <<>>
    /\ page = NoPage
    /\ recErrorPages = {}
    /\ recErrorPosted = FALSE
    /\ regionJob = NoRegionJob
    /\ ocrProcess = "idle"

(***************************************************************************)
(* The hook useOCRWorker (main thread).                                     *)
(***************************************************************************)
\* the continuation of `await processImage(...)` in the batch loop runs as a
\* microtask right after the promise settles, before any other message event
ProcessImageReturned(p) == p.promise # "none"
ProcessImageSettled(p) == p.promise \in {"resolved", "rejected"}

ResumePending == batch.pc = "awaiting" /\ ProcessImageSettled(page)

\* checkBothReady: the new isReady and jobState
CheckBothReady(ocrReady, readyCount, ready, js) ==
    IF ocrReady /\ readyCount >= nRecWorkers
    THEN [isReady |-> TRUE, jobState |-> initialJobState]
    ELSE [isReady |-> ready, jobState |-> js]

\* runRecognition, if (textRegions.length === 0)
NoRegions(textRegions) == Len(textRegions) = 0

\* runRecognition, empty page: setJobState(prev => ({...prev, status: 'done'}))
EmptyPageNoDone(js) == js
EmptyPageJobState(js) == [js EXCEPT !.status = "done"]

\* runRecognition, the .then callback of Promise.all: assembly of the result
ThenResult(textRegions, chunkResults, perm) ==
    LET allResults == FlatSeq(chunkResults)
        recognitionResults == RecognitionResults(textRegions, allResults)
        orderedResults == ReadingOrderProcess(recognitionResults, perm)
    IN [recognitionResults |-> recognitionResults,
        result |-> [textBlocks |-> orderedResults, fullText |-> FullText(orderedResults)]]

\* In a page record, imageData and croppedImages[k] tell whether the pixel
\* buffer of the page image and of the crop of region k is still attached in
\* the hook's thread or was detached by a transfer; readDetached is history:
\* the hook has read a buffer that was detached.

\* the buffers named by the transfer list of the postMessage of LAYOUT_DETECT
\* (the call has no transfer list) and of REC_PROCESS (the buffers of the
\* crops of the jobs, named here by the ids of the jobs)
LayoutDetectTransfersImage == {"imageData"}
LayoutDetectTransferList == {}
RecProcessTransferList(jobs) == {jobs[k].id : k \in 1..Len(jobs)}

\* the crops the then-callback of runRecognition reads: it builds the result
\* from textRegions, the results of the workers, image and imageDataUrl
ThenReadsCroppedImages(textRegions) == {}

\* a buffer after a postMessage with the given transfer list
AfterPost(buffer, name, transferList) ==
    IF name \in transferList THEN "detached" ELSE buffer

\* processImage: the promise executor; imageDataToDataUrl and the structured
\* clone of postMessage read image.imageData
ProcessImageEffect(i) ==
    /\ page' = [NoPage EXCEPT
          !.id = i, !.listening = TRUE, !.promise = "pending",
          !.imageData = AfterPost(NoPage.imageData, "imageData", LayoutDetectTransferList)]
    /\ jobState' = [status |-> "processing", stage |-> "starting"]
    /\ ocrInbox' = Append(ocrInbox, OcrMsg("LAYOUT_DETECT", i, "", <<>>))

\* App, runOCR: the for loop after the body of page i ended with the given
\* outcome of its await: the catch logs the error and the loop goes on
LoopAbortsOnError(i, total, outcome) ==
    IF outcome = "rejected" THEN "finished"
    ELSE IF i + 1 < total THEN "awaiting" ELSE "finished"
LoopAfter(i, total, outcome) ==
    IF i + 1 < total THEN "awaiting" ELSE "finished"

\* App, runOCR: the start of the batch loop up to its first await, for a
\* batch of 1 to MaxPages pages (processedImages.length). In a batch record,
\* called and outcomes are history: the page indices processImage was called
\* with and how each await ended.
RunOCR ==
    /\ batch.pc = "idle"
    /\ \E k \in 1..MaxPages :
          batch' = [pc |-> "awaiting", i |-> 0, total |-> k,
                    called |-> <<0>>, outcomes |-> <<>>]
    /\ sessionResults' = <<>>
    /\ ProcessImageEffect(0)
    /\ UNCHANGED <<fnVars, ocrProcess, regionJob,
                   nRecWorkers, isReady, ocrWorkerReady, recReadyCount, recOnmessage,
                   recInbox, recLoaded, ocrInit, recErrorPages, recErrorPosted>>

\* App, runOCR: after the await: keep the result or log the error, next page
BatchResume ==
    /\ ResumePending
    /\ sessionResults' = IF page.promise = "resolved"
                         THEN Append(sessionResults, page.id)
                         ELSE sessionResults
    /\ IF LoopAfter(batch.i, batch.total, page.promise) = "awaiting"
       THEN /\ batch' = [batch EXCEPT !.i = batch.i + 1,
                                      !.called = Append(@, batch.i + 1),
                                      !.outcomes = Append(@, page.promise)]
            /\ ProcessImageEffect(batch.i + 1)
       ELSE /\ batch' = [batch EXCEPT !.i = batch.i + 1, !.pc = "finished",
                                      !.outcomes = Append(@, page.promise)]
            /\ UNCHANGED <<page, jobState, ocrInbox>>
    /\ UNCHANGED <<fnVars, ocrProcess, regionJob,
                   nRecWorkers, isReady, ocrWorkerReady, recReadyCount, recOnmessage,
                   recInbox, recLoaded, ocrInit, recErrorPages, recErrorPosted>>

\* processRegion: the promise executor. App calls it for a region the user
\* drags on a displayed image; here one region job, started once the hook is
\* ready or a result is shown.
ProcessRegion ==
    /\ regionJob.promise = "none"
    /\ isReady \/ sessionResults # <<>>
    /\ ~ResumePending
    /\ regionJob' = [listening |-> TRUE, promise |-> "pending"]
    /\ ocrInbox' = Append(ocrInbox, OcrMsg("OCR_PROCESS", RegionId, "", <<>>))
    /\ UNCHANGED <<fnVars, ocrProcess, nRecWorkers, isReady, jobState, ocrWorkerReady,
                   recReadyCount, recOnmessage, recInbox, recLoaded, ocrInit, batch,
                   sessionResults, page, recErrorPages, recErrorPosted>>

\* a message of the OCR worker is delivered: first worker.onmessage of the
\* mount effect, then the listener of the page job and the listener of the
\* region job if they are registered.
\* Sets ocrWorkerReady, isReady, jobState, page, recOnmessage, recInbox, regionJob.
OcrDeliver(msg) ==
    LET initialized == msg.type = "OCR_PROGRESS" /\ msg.stage = "initialized"
        ready1 == ocrWorkerReady \/ initialized
        both == CheckBothReady(ready1, recReadyCount, isReady, jobState)
        js1 == IF msg.type # "OCR_PROGRESS" THEN jobState
               ELSE IF initialized THEN both.jobState
               ELSE [jobState EXCEPT !.status = "loading_model", !.stage = msg.stage]
        mine == page.listening /\ ~(msg.id # -1 /\ msg.id # page.id)
        N == nRecWorkers
        chunk(w) == Chunk(w, N, msg.textRegions, msg.croppedImages)
    IN
      /\ ~ResumePending
      /\ ocrWorkerReady' = ready1
      /\ regionJob' = RegionHandler(regionJob, msg)
      /\ isReady' = (IF initialized THEN both.isReady ELSE isReady)
      /\ CASE mine /\ msg.type = "OCR_PROGRESS" ->
                /\ jobState' = [js1 EXCEPT !.status = "processing", !.stage = msg.stage]
                /\ UNCHANGED <<page, recOnmessage, recInbox>>
           [] mine /\ msg.type = "OCR_ERROR" ->
                /\ jobState' = [js1 EXCEPT !.status = "error"]
                /\ page' = [page EXCEPT !.listening = FALSE, !.promise = "rejected"]
                /\ UNCHANGED <<recOnmessage, recInbox>>
           [] mine /\ msg.type = "LAYOUT_DONE" /\ NoRegions(msg.textRegions) ->
                /\ jobState' = EmptyPageJobState(js1)
                /\ page' = [page EXCEPT !.listening = FALSE, !.promise = "resolved",
                                        !.result = [textBlocks |-> <<>>, fullText |-> ""],
                                        !.layout = "empty"]
                /\ UNCHANGED <<recOnmessage, recInbox>>
           [] mine /\ msg.type = "LAYOUT_DONE" /\ ~NoRegions(msg.textRegions) ->
                /\ jobState' = [js1 EXCEPT !.stage = "text_recognition"]
                /\ page' = [page EXCEPT
                      !.listening = FALSE,
                      !.textRegions = msg.textRegions,
                      !.dispatch = [w \in 1..N |->
                          IF chunk(w) = <<>> THEN "resolved" ELSE "pending"],
                      !.chunkResults = [w \in 1..N |-> <<>>],
                      !.layout = "regions",
                      !.chunkPage = [w \in 1..N |-> -1],
                      !.croppedImages = [k \in 1..Len(msg.textRegions) |->
                          AfterPost("attached", k - 1,
                                    UNION {RecProcessTransferList(chunk(w)) : w \in 1..N})]]
                /\ recOnmessage' = [w \in 1..N |->
                      IF chunk(w) = <<>> THEN recOnmessage[w]
                      ELSE DispatchHandler(page.id)]
                /\ recInbox' = [w \in 1..N |->
                      IF chunk(w) = <<>> THEN recInbox[w]
                      ELSE Append(recInbox[w],
                                  RecMsg("REC_PROCESS", chunk(w), <<>>, page.id))]
           [] OTHER ->
                /\ jobState' = js1
                /\ UNCHANGED <<page, recOnmessage, recInbox>>

\* a message of recognition worker w is delivered to worker.onmessage.
\* Sets recReadyCount, recOnmessage, isReady, jobState, page.
RecDeliver(w, msg) ==
    LET h == recOnmessage[w]
        settles == h.kind = "dispatch" /\ msg.type \in {"REC_COMPLETE", "REC_ERROR"}
        current == settles /\ h.page = page.id /\ page.promise # "none"
                   /\ page.dispatch # <<>> /\ page.dispatch[w] = "pending"
    IN
      /\ ~ResumePending
      /\ CASE h.kind = "init" /\ msg.type = "REC_READY" ->
                \* the REC_READY handler of the mount effect
                LET both == CheckBothReady(ocrWorkerReady, recReadyCount + 1,
                                           isReady, jobState)
                IN /\ recReadyCount' = recReadyCount + 1
                   /\ recOnmessage' = [recOnmessage EXCEPT ![w] = NullHandler]
                   /\ isReady' = both.isReady
                   /\ jobState' = both.jobState
                   /\ UNCHANGED page
           [] current /\ msg.type = "REC_COMPLETE" ->
                \* dispatch: res(e.data.results); Promise.all resolves with the last
                LET dispatch1 == [page.dispatch EXCEPT ![w] = "resolved"]
                    chunks1 == [page.chunkResults EXCEPT ![w] = msg.results]
                    all == \A v \in 1..nRecWorkers : dispatch1[v] = "resolved"
                IN /\ recOnmessage' = [recOnmessage EXCEPT ![w] = NullHandler]
                   /\ UNCHANGED <<recReadyCount, isReady>>
                   /\ IF all /\ page.promise = "pending"
                      THEN \E perm \in Orders(Len(page.textRegions)) :
                             LET t == ThenResult(page.textRegions, chunks1, perm) IN
                               /\ page' = [page EXCEPT
                                     !.dispatch = dispatch1,
                                     !.chunkResults = chunks1,
                                     !.chunkPage[w] = msg.page,
                                     !.arrived = Append(@, w),
                                     !.recognitionResults = t.recognitionResults,
                                     !.result = t.result,
                                     !.readDetached =
                                        \E k \in ThenReadsCroppedImages(page.textRegions) :
                                           page.croppedImages[k] = "detached",
                                     !.promise = "resolved"]
                               /\ jobState' = [jobState EXCEPT !.status = "done",
                                                               !.stage = "reading_order"]
                      ELSE /\ page' = [page EXCEPT !.dispatch = dispatch1,
                                                   !.chunkResults = chunks1,
                                                   !.chunkPage[w] = msg.page,
                                                   !.arrived = Append(@, w)]
                           /\ UNCHANGED jobState
           [] current /\ msg.type = "REC_ERROR" ->
                \* dispatch: rej(...); Promise.all rejects with the first rejection
                /\ recOnmessage' = [recOnmessage EXCEPT ![w] = NullHandler]
                /\ UNCHANGED <<recReadyCount, isReady>>
                /\ IF page.promise = "pending"
                   THEN /\ page' = [page EXCEPT !.dispatch[w] = "rejected",
                                                !.promise = "rejected"]
                        /\ jobState' = [jobState EXCEPT !.status = "error"]
                   ELSE /\ page' = [page EXCEPT !.dispatch[w] = "rejected"]
                        /\ UNCHANGED jobState
           [] settles /\ ~current ->
                \* the handler of an earlier page job: its promises are settled
                /\ recOnmessage' = [recOnmessage EXCEPT ![w] = NullHandler]
                /\ UNCHANGED <<recReadyCount, isReady, jobState, page>>
           [] OTHER ->
                UNCHANGED <<recReadyCount, recOnmessage, isReady, jobState, page>>

(***************************************************************************)
(* The recognition worker (recognition.worker.ts).                          *)
(***************************************************************************)
\* selectRecognizer of the recognition worker: the instance for a category
selectRecognizer(charCountCategory) ==
    IF charCountCategory = 3 THEN "rec30"
    ELSE IF charCountCategory = 2 THEN "rec50"
    ELSE "rec100"

\* REC_INIT initializes rec30, rec50, rec100 in this order; k of them are done
RecognizerInitialized(instance, k) ==
    CASE instance = "rec30" -> k >= 1
      [] instance = "rec50" -> k >= 2
      [] OTHER -> k >= 3

\* recognizeCropped: a failing inference or decoding is caught and yields
\* {text: '', confidence: 0}; confidence is in hundredths
RecognizeCroppedKeepsText(crop, fails) ==
    [text |-> TextOf(crop), confidence |-> IF fails THEN 0 ELSE 90]
RecognizeCropped(crop, fails) ==
    IF fails THEN [text |-> "", confidence |-> 0]
    ELSE [text |-> TextOf(crop), confidence |-> 90]

\* the REC_PROCESS branch of self.onmessage: the answer to a job list.
\* A recognizer that is null or not initialized throws out of the loop.
RecProcessAnswer(jobs, k, failing, p) ==
    IF \E j \in 1..Len(jobs) :
          ~RecognizerInitialized(selectRecognizer(jobs[j].charCountCategory), k)
    THEN RecMsg("REC_ERROR", <<>>, <<>>, p)
    ELSE RecMsg("REC_COMPLETE", <<>>,
                [j \in 1..Len(jobs) |->
                    LET r == RecognizeCropped(jobs[j].croppedImageData, j \in failing)
                    IN [id |-> jobs[j].id, text |-> r.text, confidence |-> r.confidence]],
                p)

\* the inferences that fail while one job list is handled: none or one job
FailingChoices(jobs) == {{}} \cup {{j} : j \in 1..Len(jobs)}

\* self.onmessage, REC_INIT: the downloads and session constructions start
RecWorkerInit(w) ==
    /\ recInbox[w] # <<>>
    /\ Head(recInbox[w]).type = "REC_INIT"
    /\ recInbox' = [recInbox EXCEPT ![w] = Tail(@)]
    /\ recLoaded' = [recLoaded EXCEPT ![w] = [pc |-> "loading", k |-> 0]]
    /\ UNCHANGED <<fnVars, ocrProcess, regionJob,
                   nRecWorkers, isReady, jobState, ocrWorkerReady, recReadyCount,
                   recOnmessage, ocrInit, ocrInbox, batch, sessionResults, page,
                   recErrorPages, recErrorPosted>>

\* REC_INIT goes on: the downloads are done and rec30, then rec50 is
\* constructed and initialized
RecWorkerInitStep(w) ==
    /\ recLoaded[w].pc = "loading"
    /\ recLoaded[w].k < 2
    /\ recLoaded' = [recLoaded EXCEPT ![w].k = @ + 1]
    /\ UNCHANGED <<fnVars, ocrProcess, regionJob,
                   nRecWorkers, isReady, jobState, ocrWorkerReady, recReadyCount,
                   recOnmessage, recInbox, ocrInit, ocrInbox, batch, sessionResults,
                   page, recErrorPages, recErrorPosted>>

\* REC_INIT ends: rec100 is initialized as the last of the three, REC_READY
\* is posted
RecWorkerReady(w) ==
    /\ recLoaded[w].pc = "loading"
    /\ recLoaded[w].k = 2
    /\ recLoaded' = [recLoaded EXCEPT ![w] = [pc |-> "ready", k |-> 3]]
    /\ RecDeliver(w, RecMsg("REC_READY", <<>>, <<>>, -1))
    /\ UNCHANGED <<fnVars, ocrProcess, regionJob,
                   nRecWorkers, ocrWorkerReady, recInbox, ocrInit, ocrInbox, batch,
                   sessionResults, recErrorPages, recErrorPosted>>

\* REC_INIT ends in its catch (a download or a session construction failed):
\* REC_ERROR is posted, the recognizers initialized so far stay
RecWorkerInitError(w) ==
    /\ recLoaded[w].pc = "loading"
    /\ recLoaded' = [recLoaded EXCEPT ![w].pc = "failed"]
    /\ recErrorPosted' = TRUE
    /\ RecDeliver(w, RecMsg("REC_ERROR", <<>>, <<>>, -1))
    /\ UNCHANGED <<fnVars, ocrProcess, regionJob,
                   nRecWorkers, ocrWorkerReady, recInbox, ocrInit, ocrInbox, batch,
                   sessionResults, recErrorPages>>

\* self.onmessage, REC_PROCESS: the jobs in order, then one answer
RecWorkerProcess(w) ==
    /\ recInbox[w] # <<>>
    /\ Head(recInbox[w]).type = "REC_PROCESS"
    /\ recInbox' = [recInbox EXCEPT ![w] = Tail(@)]
    /\ LET msg == Head(recInbox[w]) IN
         \E failing \in FailingChoices(msg.jobs) :
            LET answer == RecProcessAnswer(msg.jobs, recLoaded[w].k, failing, msg.page) IN
              /\ recErrorPages' = IF answer.type = "REC_ERROR"
                                  THEN recErrorPages \cup {msg.page}
                                  ELSE recErrorPages
              /\ recErrorPosted' = (recErrorPosted \/ answer.type = "REC_ERROR")
              /\ RecDeliver(w, answer)
    /\ UNCHANGED <<fnVars, ocrProcess, regionJob,
                   nRecWorkers, ocrWorkerReady, recLoaded, ocrInit, ocrInbox, batch,
                   sessionResults>>

(***************************************************************************)
(* The OCR worker (ocr.worker.ts).                                          *)
(***************************************************************************)
\* self.onmessage, case INITIALIZE: initialize() starts and posts its first
\* OCR_PROGRESS (stage 'initializing', no id)
OcrWorkerInitialize ==
    /\ ocrInbox # <<>>
    /\ Head(ocrInbox).type = "INITIALIZE"
    /\ ocrInit = "idle"
    /\ ocrInbox' = Tail(ocrInbox)
    /\ ocrInit' = "loading"
    /\ OcrDeliver(OcrMsg("OCR_PROGRESS", -1, "initializing", <<>>))
    /\ UNCHANGED <<fnVars, ocrProcess,
                   nRecWorkers, recReadyCount, recLoaded, batch, sessionResults,
                   recErrorPages, recErrorPosted>>

\* initialize() ends: isInitialized = true, OCR_PROGRESS 'initialized'
OcrWorkerInitialized ==
    /\ ocrInit = "loading"
    /\ ocrInit' = "ready"
    /\ OcrDeliver(OcrMsg("OCR_PROGRESS", -1, "initialized", <<>>))
    /\ UNCHANGED <<fnVars, ocrProcess, nRecWorkers, recReadyCount, recLoaded, ocrInbox, batch,
                   sessionResults, recErrorPages, recErrorPosted>>

\* initialize() ends in its catch: OCR_ERROR without id
OcrWorkerInitError ==
    /\ ocrInit = "loading"
    /\ ocrInit' = "failed"
    /\ OcrDeliver(OcrMsg("OCR_ERROR", -1, "initialization", <<>>))
    /\ UNCHANGED <<fnVars, ocrProcess, nRecWorkers, recReadyCount, recLoaded, ocrInbox, batch,
                   sessionResults, recErrorPages, recErrorPosted>>

(***************************************************************************)
(* The LAYOUT_DETECT branch of the OCR worker. The hook posts LAYOUT_DETECT *)
(* and consumes LAYOUT_DONE {id, textRegions, croppedImages, startTime},    *)
(* but the switch of ocr.worker.ts among the sources has no such case; the  *)
(* branch is modelled from the specification (layout detection once per     *)
(* page, then the regions go to the worker pool) and from the fields the    *)
(* hook reads: it answers LAYOUT_DONE with the detected regions and their   *)
(* crops, or OCR_ERROR with the job id.                                     *)
(***************************************************************************)
OcrWorkerLayoutDetect ==
    /\ ocrInbox # <<>>
    /\ Head(ocrInbox).type = "LAYOUT_DETECT"
    /\ ocrInit \in {"ready", "failed"}
    /\ \/ /\ ocrInit = "ready"
          /\ \E textRegions \in RegionLists :
               OcrDeliver(OcrMsg("LAYOUT_DONE", Head(ocrInbox).id, "", textRegions))
       \/ OcrDeliver(OcrMsg("OCR_ERROR", Head(ocrInbox).id, "", <<>>))
    /\ ocrInbox' = Tail(ocrInbox)
    /\ UNCHANGED <<fnVars, ocrProcess, nRecWorkers, recReadyCount, recLoaded, ocrInit, batch,
                   sessionResults, recErrorPages, recErrorPosted>>

(***************************************************************************)
(* The OCR_PROCESS branch of the OCR worker (processOCR) for the region     *)
(* job, as the hook sees it: the OCR_PROGRESS messages with the id of the   *)
(* job, then OCR_COMPLETE or OCR_ERROR with the id.                         *)
(***************************************************************************)
\* self.onmessage, case OCR_PROCESS, in an initialized worker: processOCR
\* posts OCR_PROGRESS 'layout_detection' and awaits detect
OcrWorkerProcess ==
    /\ ocrInbox # <<>>
    /\ Head(ocrInbox).type = "OCR_PROCESS"
    /\ ocrInit = "ready"
    /\ ocrProcess = "idle"
    /\ ocrProcess' = "detect"
    /\ OcrDeliver(OcrMsg("OCR_PROGRESS", Head(ocrInbox).id, "layout_detection", <<>>))
    /\ ocrInbox' = Tail(ocrInbox)
    /\ UNCHANGED <<fnVars, nRecWorkers, recReadyCount, recLoaded, ocrInit, batch,
                   sessionResults, recErrorPages, recErrorPosted>>

\* processOCR goes on after detect: OCR_PROGRESS 'text_recognition'
OcrWorkerProcessRecognize ==
    /\ ocrProcess = "detect"
    /\ ocrProcess' = "recognize"
    /\ OcrDeliver(OcrMsg("OCR_PROGRESS", RegionId, "text_recognition", <<>>))
    /\ UNCHANGED <<fnVars, nRecWorkers, recReadyCount, recLoaded, ocrInit, ocrInbox, batch,
                   sessionResults, recErrorPages, recErrorPosted>>

\* processOCR ends: OCR_COMPLETE, or OCR_ERROR from its catch
OcrWorkerProcessEnd ==
    /\ ocrProcess \in {"detect", "recognize"}
    /\ ocrProcess' = "returned"
    /\ \E type \in {"OCR_COMPLETE", "OCR_ERROR"} :
          /\ type = "OCR_COMPLETE" => ocrProcess = "recognize"
          /\ OcrDeliver(OcrMsg(type, RegionId, "", <<>>))
    /\ UNCHANGED <<fnVars, nRecWorkers, recReadyCount, recLoaded, ocrInit, ocrInbox, batch,
                   sessionResults, recErrorPages, recErrorPosted>>

\* self.onmessage of ocr.worker.ts as it is among the sources: the switch has
\* the cases INITIALIZE, OCR_PROCESS and TERMINATE and no default; the handler
\* of a message of another type returns without posting an answer
SwitchCases == {"INITIALIZE", "OCR_PROCESS", "TERMINATE"}

OcrWorkerNoCase ==
    /\ ocrInbox # <<>>
    /\ Head(ocrInbox).type \notin SwitchCases
    /\ ocrInbox' = Tail(ocrInbox)
    /\ UNCHANGED <<fnVars, ocrProcess, regionJob, nRecWorkers, isReady, jobState,
                   ocrWorkerReady, recReadyCount, recOnmessage, recInbox, recLoaded,
                   ocrInit, batch, sessionResults, page, recErrorPages, recErrorPosted>>

(***************************************************************************)
(* worker/model-loader.ts: the model cache in IndexedDB and loadModel.      *)
(* Model bytes are tokens [model, build]; cachedAt is left out.             *)
(***************************************************************************)

MaxLoads == 2

MODEL_VERSION == "1.0.0"

\* the keys of MODEL_URLS
ModelTypes == {"layout", "recognition30", "recognition50", "recognition100"}

\* the names the calls of the model ask for, and whose entries the store may
\* hold at the start
LoadedTypes == {"layout", "recognition30"}

\* a name loadModel may be called with that MODEL_URLS does not have
UnknownModelType == "recognition200"

\* the version of an entry written by an earlier build
OlderVersion == "0.9.0"

\* the bytes the server has for a model, and the bytes an earlier build stored
ServerBytes(name) == [model |-> name, build |-> MODEL_VERSION]
OlderBytes(name) == [model |-> name, build |-> OlderVersion]

\* store.get of a name the store does not have gives undefined
NoEntry == [name |-> ""]

Undefined == [model |-> ""]

\* the object saveModelToCache puts into the store
SaveEntryUnversioned(modelName, data) ==
    [name |-> modelName, data |-> data, version |-> ""]
SaveEntry(modelName, data) ==
    [name |-> modelName, data |-> data, version |-> MODEL_VERSION]

\* what the store may hold for a name when the page is opened
EntryChoices(name) ==
    {NoEntry,
     [name |-> name, data |-> OlderBytes(name), version |-> OlderVersion],
     [name |-> name, data |-> ServerBytes(name), version |-> MODEL_VERSION]}

\* getModelFromCache, from the entry store.get returned
GetModelFromCacheAnyVersion(entry) ==
    IF entry # NoEntry THEN entry.data ELSE Undefined
GetModelFromCache(entry) ==
    IF entry # NoEntry /\ entry.version = MODEL_VERSION
       THEN entry.data
       ELSE Undefined

Loads == 1..MaxLoads

\* In a call record, response is history: what fetch answered to the call.
NoCall == [pc |-> "idle", modelType |-> "", seen |-> NoEntry, data |-> Undefined,
           source |-> "", saved |-> NoEntry, response |-> "",
           progress |-> <<>>, error |-> ""]

LoaderIdle ==
    /\ modelCache = [n \in ModelTypes |-> NoEntry]
    /\ loadCalls = [c \in Loads |-> NoCall]

LoaderInit ==
    /\ modelCache \in [ModelTypes -> UNION {EntryChoices(n) : n \in ModelTypes}]
    /\ \A n \in LoadedTypes : modelCache[n] \in EntryChoices(n)
    /\ \A n \in ModelTypes \ LoadedTypes : modelCache[n] = NoEntry
    /\ loadCalls = [c \in Loads |-> NoCall]

Rejected(call, error) == [call EXCEPT !.pc = "rejected", !.error = error]

\* loadModel up to its first await: the lookup in MODEL_URLS
LoadModel(c) ==
    /\ loadCalls[c].pc \in {"idle", "returned", "rejected"}
    /\ \E modelType \in LoadedTypes \cup {UnknownModelType} :
          loadCalls' = [loadCalls EXCEPT ![c] =
              IF modelType \notin ModelTypes
                 THEN Rejected([NoCall EXCEPT !.modelType = modelType], "unknown model type")
                 ELSE [NoCall EXCEPT !.pc = "cache", !.modelType = modelType]]
    /\ UNCHANGED <<pipeVars, modelCache, decoder, selection, layout, suppression, partition, ocrJob, recJob,
                   lifecycle, initObject, app, equiv>>

\* await getModelFromCache, and the cache hit branch of loadModel
LoadFromCache(c) ==
    /\ loadCalls[c].pc = "cache"
    /\ LET call == loadCalls[c]
           entry == modelCache[call.modelType]
           cached == GetModelFromCache(entry)
       IN  loadCalls' = [loadCalls EXCEPT ![c] =
              IF cached # Undefined
                 THEN [call EXCEPT !.pc = "returned", !.seen = entry, !.data = cached,
                                   !.source = "cache", !.progress = <<100>>]
                 ELSE [call EXCEPT !.pc = "download", !.seen = entry]]
    /\ UNCHANGED <<pipeVars, modelCache, decoder, selection, layout, suppression, partition, ocrJob, recJob,
                   lifecycle, initObject, app, equiv>>

\* the request of getModelFromCache fails
LoadCacheReadError(c) ==
    /\ loadCalls[c].pc = "cache"
    /\ loadCalls' = [loadCalls EXCEPT ![c] = Rejected(@, "cache read")]
    /\ UNCHANGED <<pipeVars, modelCache, decoder, selection, layout, suppression, partition, ocrJob, recJob,
                   lifecycle, initObject, app, equiv>>

\* the answers fetch can give to downloadWithProgress
ResponseChoices == {"ok", "ok without content-length", "http error", "text/html", "network error"}

\* downloadWithProgress throws when fetch rejects, when the status is not a
\* success status and when the content-type is text/html
DownloadThrowsUnlessHtml(response) == response \in {"http error", "network error"}
DownloadThrows(response) == response \in {"http error", "text/html", "network error"}

\* the body of a response: the model, or the page of the SPA fallback
ResponseBytes(response, name) ==
    IF response = "text/html" THEN [model |-> "index.html", build |-> ""]
    ELSE ServerBytes(name)

\* await downloadWithProgress
LoadDownload(c) ==
    /\ loadCalls[c].pc = "download"
    /\ \E response \in ResponseChoices :
          LET call == [loadCalls[c] EXCEPT !.response = response]
          IN  loadCalls' = [loadCalls EXCEPT ![c] =
                 IF DownloadThrows(response) THEN Rejected(call, response)
                 ELSE [call EXCEPT !.pc = "save",
                                   !.data = ResponseBytes(response, call.modelType),
                                   !.progress = IF response = "ok" THEN <<50, 100>>
                                                ELSE <<>>]]
    /\ UNCHANGED <<pipeVars, modelCache, decoder, selection, layout, suppression, partition, ocrJob, recJob,
                   lifecycle, initObject, app, equiv>>

\* await saveModelToCache succeeds, and loadModel returns the downloaded bytes
LoadSave(c) ==
    /\ loadCalls[c].pc = "save"
    /\ LET call == loadCalls[c]
           entry == SaveEntry(call.modelType, call.data)
       IN  /\ modelCache' = [modelCache EXCEPT ![call.modelType] = entry]
           /\ loadCalls' = [loadCalls EXCEPT ![c] =
                 [call EXCEPT !.pc = "returned", !.source = "download", !.saved = entry]]
    /\ UNCHANGED <<pipeVars, decoder, selection, layout, suppression, partition, ocrJob, recJob,
                   lifecycle, initObject, app, equiv>>

\* the put of saveModelToCache fails: the rejection propagates out of loadModel
LoadSaveError(c) ==
    /\ loadCalls[c].pc = "save"
    /\ loadCalls' = [loadCalls EXCEPT ![c] = Rejected(@, "cache write")]
    /\ UNCHANGED <<pipeVars, modelCache, decoder, selection, layout, suppression, partition, ocrJob, recJob,
                   lifecycle, initObject, app, equiv>>

\* clearModelCache
ClearModelCache ==
    /\ \E n \in ModelTypes : modelCache[n] # NoEntry
    /\ modelCache' = [n \in ModelTypes |-> NoEntry]
    /\ UNCHANGED <<pipeVars, loadCalls, decoder, selection, layout, suppression, partition, ocrJob, recJob,
                   lifecycle, initObject, app, equiv>>

LoaderNext ==
    \/ \E c \in Loads : LoadModel(c)
    \/ \E c \in Loads : LoadFromCache(c)
    \/ \E c \in Loads : LoadCacheReadError(c)
    \/ \E c \in Loads : LoadDownload(c)
    \/ \E c \in Loads : LoadSave(c)
    \/ \E c \in Loads : LoadSaveError(c)
    \/ ClearModelCache

(***************************************************************************)
(* worker/text-recognizer.ts: TextRecognizer.decodeOutput.                  *)
(* The logits are a flat array of seqLength * vocabSize scores, a text is   *)
(* the sequence of its character codes, a confidence is in hundredths.      *)
(***************************************************************************)

MaxSeqLength == 4
VocabSize == 100

\* the arg-max indices the inputs are built from
IndexChoices == {0, 1, 3, 4, 5, 99}

\* the characters String.prototype.trim removes, among those of the charLists:
\* the space and the ideographic space
IsWhitespace(ch) == ch \in {32, 12288}

\* charset_train.split('') of a configuration of n characters, some of them
\* spaces, the others the letters from U+3041 on
CharList(n, blanks) ==
    [j \in 1..n |-> IF (j - 1) \in blanks THEN 32 ELSE 12353 + (j - 1)]

\* an empty charset, short ones, and full ones
CharListChoices ==
    {CharList(0, {}), CharList(4, {}), CharList(5, {}), CharList(VocabSize - 1, {}),
     CharList(VocabSize - 1, {3}), CharList(VocabSize - 1, {4})}

\* the resource at configPath: unavailable (fetch fails or answers not ok), or
\* a document with a model.charset_train
ConfigChoices ==
    {[ok |-> FALSE, charset_train |-> <<>>]}
        \cup {[ok |-> TRUE, charset_train |-> c] : c \in CharListChoices}

\* config.charList after the constructor and loadConfig: the constructor's []
\* unless the resource is read and its charset_train is not the empty string
LoadConfigCharList(resource) ==
    IF resource.ok /\ resource.charset_train # <<>> THEN resource.charset_train ELSE <<>>

\* the scores of one position whose largest score is at index k
ScoresFor(k) == [j \in 1..VocabSize |-> IF j - 1 = k THEN 7 ELSE IF j = VocabSize THEN 2 ELSE 0 - 5]

\* the flat logits of a sequence of positions
LogitsFor(indices) == FlatSeq([i \in 1..Len(indices) |-> ScoresFor(indices[i])])

IndexLists == UNION {[1..n -> IndexChoices] : n \in 0..MaxSeqLength}

\* logits.slice(from, to)
Slice(a, from, to) == [j \in 1..(Min2(to, Len(a)) - from) |-> a[from + j]]

\* Math.max(...scores)
MaxScore(scores) == CHOOSE m \in Range(scores) : \A x \in Range(scores) : x <= m

\* scores.indexOf(v)
IndexOf(scores, v) ==
    IF v \notin Range(scores) THEN 0 - 1
    ELSE (CHOOSE j \in 1..Len(scores) :
             scores[j] = v /\ \A k \in 1..(j - 1) : scores[k] # v) - 1

\* maxIndex of position i (from 0)
MaxIndex(logits, i, vocabSize) ==
    LET scores == Slice(logits, i * vocabSize, (i + 1) * vocabSize)
    IN  IndexOf(scores, MaxScore(scores))

\* the first loop of decodeOutput, from position i on
RECURSIVE ResultClassIdsNoBreak(_, _, _, _)
ResultClassIdsNoBreak(logits, i, seqLength, vocabSize) ==
    IF i >= seqLength THEN <<>>
    ELSE LET maxIndex == MaxIndex(logits, i, vocabSize)
             rest == ResultClassIdsNoBreak(logits, i + 1, seqLength, vocabSize)
         IN  IF maxIndex < 4 THEN rest ELSE <<maxIndex - 1>> \o rest

RECURSIVE ResultClassIds(_, _, _, _)
ResultClassIds(logits, i, seqLength, vocabSize) ==
    IF i >= seqLength THEN <<>>
    ELSE LET maxIndex == MaxIndex(logits, i, vocabSize)
         IN  IF maxIndex = 0 THEN <<>>
             ELSE IF maxIndex < 4
                  THEN ResultClassIds(logits, i + 1, seqLength, vocabSize)
                  ELSE <<maxIndex - 1>>
                          \o ResultClassIds(logits, i + 1, seqLength, vocabSize)

\* the second loop of decodeOutput without the test of id against the length
\* of the charList: what is read outside is written U+FFFD
RECURSIVE ResultCharsUnchecked(_, _, _, _)
ResultCharsUnchecked(ids, k, prevId, charList) ==
    IF k > Len(ids) THEN <<>>
    ELSE IF ids[k] # prevId
         THEN <<IF ids[k] < Len(charList) THEN charList[ids[k] + 1] ELSE 65533>>
                 \o ResultCharsUnchecked(ids, k + 1, ids[k], charList)
         ELSE ResultCharsUnchecked(ids, k + 1, prevId, charList)

\* the second loop of decodeOutput, from the k-th class id on
RECURSIVE ResultCharsKeepingRepeats(_, _, _, _)
ResultCharsKeepingRepeats(ids, k, prevId, charList) ==
    IF k > Len(ids) THEN <<>>
    ELSE IF ids[k] < Len(charList)
         THEN <<charList[ids[k] + 1]>>
                 \o ResultCharsKeepingRepeats(ids, k + 1, ids[k], charList)
         ELSE ResultCharsKeepingRepeats(ids, k + 1, prevId, charList)

RECURSIVE ResultChars(_, _, _, _)
ResultChars(ids, k, prevId, charList) ==
    IF k > Len(ids) THEN <<>>
    ELSE IF ids[k] # prevId /\ ids[k] < Len(charList)
         THEN <<charList[ids[k] + 1]>> \o ResultChars(ids, k + 1, ids[k], charList)
         ELSE ResultChars(ids, k + 1, prevId, charList)

\* String.prototype.trim
RECURSIVE TrimStart(_)
TrimStart(text) ==
    IF text # <<>> /\ IsWhitespace(Head(text)) THEN TrimStart(Tail(text)) ELSE text

RECURSIVE TrimEnd(_)
TrimEnd(text) ==
    IF text # <<>> /\ IsWhitespace(text[Len(text)])
       THEN TrimEnd(SubSeq(text, 1, Len(text) - 1))
       ELSE text

Trim(text) == TrimEnd(TrimStart(text))

\* the outputs of session.run: the tensor under outputNames[0], or none
OutputTensor(logits, dims) == [present |-> TRUE, data |-> logits, dims |-> dims]
NoOutputTensor == [present |-> FALSE]

\* decodeOutput, with its catch
DecodeOutput(outputs, charList) ==
    IF ~outputs.present
       THEN [text |-> <<>>, confidence |-> 0]
       ELSE LET logits == outputs.data
                seqLength == outputs.dims[2]
                vocabSize == outputs.dims[3]
                resultClassIds == ResultClassIds(logits, 0, seqLength, vocabSize)
                resultChars == ResultChars(resultClassIds, 1, 0 - 1, charList)
            IN  [text |-> Trim(resultChars), confidence |-> 90]

NoResult == [text |-> <<>>, confidence |-> 0 - 1]

TensorChoices ==
    {OutputTensor(LogitsFor(indices), <<1, Len(indices), VocabSize>>) :
        indices \in IndexLists} \cup {NoOutputTensor}

DecoderInit ==
    \E outputs \in TensorChoices, resource \in ConfigChoices :
        decoder = [pc |-> "inferred", outputs |-> outputs, resource |-> resource,
                   charList |-> LoadConfigCharList(resource), result |-> NoResult]

\* return this.decodeOutput(outputs) of recognizeCropped
Decode ==
    /\ decoder.pc = "inferred"
    /\ decoder' = [decoder EXCEPT
          !.pc = "decoded",
          !.result = DecodeOutput(decoder.outputs, decoder.charList)]
    /\ UNCHANGED <<pipeVars, modelCache, loadCalls, selection, layout, suppression, partition, ocrJob, recJob,
                   lifecycle, initObject, app, equiv>>

DecoderNext == Decode

(***************************************************************************)
(* The cascade of recognizers: the three instances each worker constructs   *)
(* and the selectRecognizer of the OCR worker (ocr.worker.ts) and of the    *)
(* recognition worker (recognition.worker.ts). An absent charCountCategory  *)
(* is -1.                                                                   *)
(***************************************************************************)

MaxJobs == 3

Absent == 0 - 1

\* the charCountCategory values a region or a job may carry
CategoryInputs == {Absent, 0, 1, 2, 3, 4, 100}

\* text_recognition.input_shape of the configuration resource, if it has one
ConfigShapeChoices == {<<>>, <<1, 3, 16, 384>>}

\* new TextRecognizer(inputShape) followed by initialize(modelData): loadConfig
\* replaces the shape by the configuration's when it declares one
TextRecognizer(inputShape, modelData, configShape) ==
    [constructed |-> inputShape,
     model |-> modelData,
     inputShape |-> IF configShape # <<>> THEN configShape ELSE inputShape]

\* the instances of OCRWorker.initialize
OcrRecognizers(configShape) ==
    [recognizer30 |-> TextRecognizer(<<1, 3, 16, 256>>, "recognition30", configShape),
     recognizer50 |-> TextRecognizer(<<1, 3, 16, 384>>, "recognition50", configShape),
     recognizer100 |-> TextRecognizer(<<1, 3, 16, 768>>, "recognition100", configShape)]

\* the instances of the REC_INIT handler
RecRecognizers(configShape) ==
    [rec30 |-> TextRecognizer(<<1, 3, 16, 256>>, "recognition30", configShape),
     rec50 |-> TextRecognizer(<<1, 3, 16, 384>>, "recognition50", configShape),
     rec100 |-> TextRecognizer(<<1, 3, 16, 768>>, "recognition100", configShape)]

\* OCRWorker.selectRecognizer
OcrSelectRecognizerByCapacity(charCountCategory) ==
    IF charCountCategory = 1 THEN "recognizer100"
    ELSE IF charCountCategory = 2 THEN "recognizer50"
    ELSE "recognizer30"
OcrSelectRecognizer(charCountCategory) ==
    IF charCountCategory = 3 THEN "recognizer30"
    ELSE IF charCountCategory = 2 THEN "recognizer50"
    ELSE "recognizer100"

CategoryLists == UNION {[1..n -> CategoryInputs] : n \in 1..MaxJobs}

SelectionInit ==
    \E categories \in CategoryLists, configShape \in ConfigShapeChoices :
        selection = [categories |-> categories, configShape |-> configShape,
                     ocr |-> <<>>, rec |-> <<>>]

\* one turn of the recognition loop of processOCR: the recognizer of region i
OcrSelect ==
    /\ Len(selection.ocr) < Len(selection.categories)
    /\ LET i == Len(selection.ocr) + 1
           recognizer == OcrRecognizers(selection.configShape)[
                             OcrSelectRecognizer(selection.categories[i])]
       IN  selection' = [selection EXCEPT !.ocr = Append(@, recognizer)]
    /\ UNCHANGED <<pipeVars, modelCache, loadCalls, decoder, layout, suppression, partition, ocrJob, recJob,
                   lifecycle, initObject, app, equiv>>

\* one turn of the loop of the REC_PROCESS handler: the recognizer of job i
RecSelect ==
    /\ Len(selection.rec) < Len(selection.categories)
    /\ LET i == Len(selection.rec) + 1
           recognizer == RecRecognizers(selection.configShape)[
                             selectRecognizer(selection.categories[i])]
       IN  selection' = [selection EXCEPT !.rec = Append(@, recognizer)]
    /\ UNCHANGED <<pipeVars, modelCache, loadCalls, decoder, layout, suppression, partition, ocrJob, recJob,
                   lifecycle, initObject, app, equiv>>

SelectionNext == OcrSelect \/ RecSelect

(***************************************************************************)
(* worker/layout-detector.ts: postprocessOutput, nms and iou.               *)
(* Scores and confidences are in hundredths; the box coordinates of the     *)
(* model output are integers of the 800 x 800 input space; the scaling and  *)
(* the rounding are computed exactly on fractions num / den.                *)
(***************************************************************************)

MaxDetections == 2
MaxNmsDetections == 3

LINE_CLASS_IDS == {1, 2, 3, 4, 5, 16}

inputSize == [width |-> 800, height |-> 800]

\* confThreshold = 0.3
confThreshold == 30

\* Math.round of num / den, den > 0
Round(num, den) == (2 * num + den) \div (2 * den)

\* iou(a, b) as the fraction num / den
iou(a, b) ==
    LET ax2 == a.x + a.width
        ay2 == a.y + a.height
        bx2 == b.x + b.width
        by2 == b.y + b.height
        ix == Max2(0, Min2(ax2, bx2) - Max2(a.x, b.x))
        iy == Max2(0, Min2(ay2, by2) - Max2(a.y, b.y))
        inter == ix * iy
    IN  IF inter = 0 THEN [num |-> 0, den |-> 1]
        ELSE [num |-> inter, den |-> a.width * a.height + b.width * b.height - inter]

\* the default iouThreshold = 0.5
iouThreshold == [num |-> 1, den |-> 2]

\* fractions with positive denominators
Less(p, q) == p.num * q.den < q.num * p.den

\* keep.every((k) => this.iou(k, d) < iouThreshold)
KeepsUpToThreshold(keep, d) ==
    \A j \in 1..Len(keep) : ~Less(iouThreshold, iou(keep[j], d))
Keeps(keep, d) ==
    \A j \in 1..Len(keep) : Less(iou(keep[j], d), iouThreshold)

\* the place of d in a list sorted by (a, b) => b.confidence - a.confidence:
\* the sort is stable, d goes behind the elements that compare equal
SortInsertBeforeEqual(sorted, d) ==
    LET before == Cardinality({j \in 1..Len(sorted) : sorted[j].confidence > d.confidence})
    IN  SubSeq(sorted, 1, before) \o <<d>> \o SubSeq(sorted, before + 1, Len(sorted))
SortInsert(sorted, d) ==
    LET before == Cardinality({j \in 1..Len(sorted) : sorted[j].confidence >= d.confidence})
    IN  SubSeq(sorted, 1, before) \o <<d>> \o SubSeq(sorted, before + 1, Len(sorted))

\* [...detections].sort(...), the first k detections sorted
RECURSIVE SortByConfidence(_, _)
SortByConfidence(detections, k) ==
    IF k = 0 THEN <<>>
    ELSE SortInsert(SortByConfidence(detections, k - 1), detections[k])

\* the loop of nms over sorted, from its k-th element on
RECURSIVE NmsLoop(_, _, _)
NmsLoop(sorted, k, keep) ==
    IF k > Len(sorted) THEN keep
    ELSE NmsLoop(sorted, k + 1,
                 IF Keeps(keep, sorted[k]) THEN Append(keep, sorted[k]) ELSE keep)

nms(detections) == NmsLoop(SortByConfidence(detections, Len(detections)), 1, <<>>)

\* the TextRegion of detection i (from 0) of the output
RegionUnclamped(output, i, metadata) ==
    LET maxWH == metadata.maxWH
        b1 == output.bboxes[i * 4 + 1]
        b2 == output.bboxes[i * 4 + 2]
        b3 == output.bboxes[i * 4 + 3]
        b4 == output.bboxes[i * 4 + 4]
        finalX1 == Max2(0, Round(b1 * maxWH, inputSize.width))
        finalY1 == Max2(0, Round(maxWH * (50 * b2 - (b4 - b2)), inputSize.height * 50))
        finalX2 == Round(b3 * maxWH, inputSize.width)
        finalY2 == Round(maxWH * (50 * b4 + (b4 - b2)), inputSize.height * 50)
    IN  [x |-> finalX1, y |-> finalY1,
         width |-> finalX2 - finalX1, height |-> finalY2 - finalY1,
         confidence |-> output.scores[i + 1],
         classId |-> output.classIds[i + 1] - 1,
         charCountCategory |->
            IF output.outputNames > 3 THEN output.charCounts[i + 1] ELSE 100]
Region(output, i, metadata) ==
    LET maxWH == metadata.maxWH
        b1 == output.bboxes[i * 4 + 1]
        b2 == output.bboxes[i * 4 + 2]
        b3 == output.bboxes[i * 4 + 3]
        b4 == output.bboxes[i * 4 + 4]
        \* x1 = b1 * scaleX, y1 - deltaH = (b2 - (b4 - b2) * 0.02) * scaleY, ...
        finalX1 == Max2(0, Round(b1 * maxWH, inputSize.width))
        finalY1 == Max2(0, Round(maxWH * (50 * b2 - (b4 - b2)), inputSize.height * 50))
        finalX2 == Min2(metadata.originalWidth, Round(b3 * maxWH, inputSize.width))
        finalY2 == Min2(metadata.originalHeight,
                        Round(maxWH * (50 * b4 + (b4 - b2)), inputSize.height * 50))
    IN  [x |-> finalX1, y |-> finalY1,
         width |-> finalX2 - finalX1, height |-> finalY2 - finalY1,
         confidence |-> output.scores[i + 1],
         classId |-> output.classIds[i + 1] - 1,
         charCountCategory |->
            IF output.outputNames > 3 THEN output.charCounts[i + 1] ELSE 100]

\* the loop of postprocessOutput, from detection i on
RECURSIVE Detections(_, _, _)
Detections(output, i, metadata) ==
    IF i >= Len(output.scores) THEN <<>>
    ELSE LET rest == Detections(output, i + 1, metadata)
             region == Region(output, i, metadata)
         IN  IF output.scores[i + 1] < confThreshold THEN rest
             ELSE IF region.classId \notin LINE_CLASS_IDS THEN rest
             ELSE IF region.width < 10 \/ region.height < 10 THEN rest
             ELSE <<region>> \o rest

\* postprocessOutput, with its catch: an output without its tensors throws
postprocessOutput(output, metadata) ==
    IF ~output.wellFormed THEN <<>>
    ELSE nms(Detections(output, 0, metadata))

\* the original sizes of the images, with maxWH = max(width, height)
Metadata(w, h) == [originalWidth |-> w, originalHeight |-> h, maxWH |-> Max2(w, h)]
MetadataChoices == {Metadata(800, 600), Metadata(1000, 1600), Metadata(40, 30)}

\* boxes x1, y1, x2, y2 of the model: inside, outside and across the image,
\* thin ones, and two that overlap
BboxChoices ==
    {<<0, 0, 400, 300>>, <<10, 5, 400, 300>>, <<0 - 20, 0 - 10, 400, 300>>,
     <<300, 200, 900, 900>>, <<100, 100, 105, 400>>, <<100, 100, 400, 109>>,
     <<850, 100, 900, 300>>}
ScoreChoices == {29, 30, 90}
ClassIdRawChoices == {1, 2}

DetectionChoices == BboxChoices \X ScoreChoices \X ClassIdRawChoices

\* the four output tensors for a list of detections
Output(dets, names) ==
    [wellFormed |-> TRUE,
     outputNames |-> names,
     classIds |-> [k \in 1..Len(dets) |-> dets[k][3]],
     bboxes |-> FlatSeq([k \in 1..Len(dets) |-> dets[k][1]]),
     scores |-> [k \in 1..Len(dets) |-> dets[k][2]],
     charCounts |-> IF names > 3 THEN [k \in 1..Len(dets) |-> 1 + (k % 3)] ELSE <<>>]

MalformedOutput ==
    [wellFormed |-> FALSE, outputNames |-> 0, classIds |-> <<>>, bboxes |-> <<>>,
     scores |-> <<>>, charCounts |-> <<>>]

OutputChoices ==
    {Output(dets, names) :
        dets \in UNION {[1..n -> DetectionChoices] : n \in 0..MaxDetections},
        names \in {3, 4}}
    \cup {MalformedOutput}

LayoutInit ==
    \E output \in OutputChoices, metadata \in MetadataChoices :
        layout = [pc |-> "inferred", output |-> output, metadata |-> metadata,
                  detections |-> <<>>]

\* const detections = this.postprocessOutput(output, metadata) of detect
Postprocess ==
    /\ layout.pc = "inferred"
    /\ layout' = [layout EXCEPT
          !.pc = "detected",
          !.detections = postprocessOutput(layout.output, layout.metadata)]
    /\ UNCHANGED <<pipeVars, modelCache, loadCalls, decoder, selection, suppression, partition, ocrJob, recJob,
                   lifecycle, initObject, app, equiv>>

LayoutNext == Postprocess

\* detections as postprocessOutput hands them to nms
TextRegion(x, y, width, height, confidence) ==
    [x |-> x, y |-> y, width |-> width, height |-> height, confidence |-> confidence,
     classId |-> 1, charCountCategory |-> 1]

TextRegionChoices ==
    {TextRegion(0, 0, 100, 100, 90), TextRegion(10, 0, 100, 100, 80),
     TextRegion(60, 0, 100, 100, 80), TextRegion(0, 0, 100, 50, 50),
     TextRegion(200, 200, 50, 50, 90), TextRegion(55, 0, 100, 100, 70)}

SuppressionInit ==
    \E detections \in UNION {[1..n -> TextRegionChoices] : n \in 0..MaxNmsDetections} :
        suppression = [pc |-> "detected", detections |-> detections,
                       once |-> <<>>, twice |-> <<>>]

\* this.nms(detections)
Nms ==
    /\ suppression.pc = "detected"
    /\ suppression' = [suppression EXCEPT !.pc = "once",
                                          !.once = nms(suppression.detections)]
    /\ UNCHANGED <<pipeVars, modelCache, loadCalls, decoder, selection, layout, partition, ocrJob, recJob,
                   lifecycle, initObject, app, equiv>>

\* nms applied to the list it returned
NmsAgain ==
    /\ suppression.pc = "once"
    /\ suppression' = [suppression EXCEPT !.pc = "twice",
                                          !.twice = nms(suppression.once)]
    /\ UNCHANGED <<pipeVars, modelCache, loadCalls, decoder, selection, layout, partition, ocrJob, recJob,
                   lifecycle, initObject, app, equiv>>

SuppressionNext == Nms \/ NmsAgain

(***************************************************************************)
(* hooks/useOCRWorker.ts: the round-robin partition of runRecognition on    *)
(* its own, for the worker counts N_REC_WORKERS can give and pages of up to *)
(* MaxPartition regions.                                                    *)
(***************************************************************************)

MaxPartition == 9

\* navigator.hardwareConcurrency: absent, or a number of logical processors
HardwareConcurrencyChoices == {0 - 1, 1, 2, 3, 4, 7, 8, 9, 16}

PartitionRegionLists ==
    {RegionList(n, first, c) : n \in 0..MaxPartition, first \in BoxChoices,
                               c \in CategoryChoices}

\* LAYOUT_DONE has arrived: recWorkersRef.current holds N_REC_WORKERS workers
PartitionInit ==
    \E hc \in HardwareConcurrencyChoices, textRegions \in PartitionRegionLists :
        partition = [pc |-> "layout done",
                     hardwareConcurrency |-> hc,
                     N |-> N_REC_WORKERS(hc),
                     textRegions |-> textRegions,
                     croppedImages |-> [k \in 1..Len(textRegions) |-> textRegions[k].bbox],
                     chunks |-> <<>>]

\* runRecognition up to Promise.all: the early return for a page without
\* regions, else the chunks handed to dispatch
Partition ==
    /\ partition.pc = "layout done"
    /\ partition' =
          IF Len(partition.textRegions) = 0
             THEN [partition EXCEPT !.pc = "no regions"]
             ELSE [partition EXCEPT
                      !.pc = "dispatched",
                      !.chunks = [w \in 1..partition.N |->
                                     Chunk(w, partition.N, partition.textRegions,
                                           partition.croppedImages)]]
    /\ UNCHANGED <<pipeVars, modelCache, loadCalls, decoder, selection, layout,
                   suppression, ocrJob, recJob, lifecycle, initObject, app, equiv>>

PartitionNext == Partition

(***************************************************************************)
(* worker/ocr.worker.ts: OCRWorker.initialize and OCRWorker.processOCR, as  *)
(* the message handlers of the worker run them. A handler runs up to its    *)
(* next await in one step; the handlers of different messages interleave at *)
(* their awaits. Run 0 is the handler of INITIALIZE, run j >= 1 the handler *)
(* of the OCR_PROCESS message with id j.                                    *)
(*                                                                         *)
(* posted[j] is the sequence of the messages the worker has posted with id *)
(* j, in the order posted; the OCR_PROGRESS messages of initialize carry no *)
(* id and are left out, the OCR_ERROR messages without id are counted in    *)
(* initErrors. A progress is in thousandths, rounded down.                  *)
(***************************************************************************)

MaxOcrJobs == 2
MaxOcrRegions == 2

OcrJobIds == 1..MaxOcrJobs
OcrRuns == 0..MaxOcrJobs

\* a field of OCRWorker that holds no instance yet
NoInstance == [run |-> 0 - 1, initialized |-> FALSE]

\* new LayoutDetector() / new TextRecognizer(...) by the initialize of a run
FreshInstance(r) == [run |-> r, initialized |-> FALSE]

\* the fields initialize assigns, in its order
InstanceOrder == <<"layoutDetector", "recognizer30", "recognizer50", "recognizer100">>

InitPc(k) == IF k = 0 THEN "loading" ELSE InstanceOrder[k]
InitPcs == {InitPc(k) : k \in 0..4}
InitPosition(pc) == CHOOSE k \in 0..4 : InitPc(k) = pc

\* the region lists detect can return: up to MaxOcrRegions regions, each of
\* its own category
OcrRegionLists ==
    UNION {{[k \in 1..n |-> [bbox |-> IF k % 2 = 1 THEN "boxA" ELSE "boxB",
                             charCountCategory |-> cs[k]]] :
               cs \in [1..n -> CategoryChoices]} : n \in 0..MaxOcrRegions}

NoRun == [pc |-> "queued", textRegions |-> <<>>, i |-> 0,
          recognitionResults |-> <<>>, threw |-> {}, postprocessThrew |-> FALSE]

OcrProgress(stage, progress) ==
    [type |-> "OCR_PROGRESS", stage |-> stage, progress |-> progress]
OcrComplete(textBlocks, txt) ==
    [type |-> "OCR_COMPLETE", textBlocks |-> textBlocks, txt |-> txt]
OcrError(error) == [type |-> "OCR_ERROR", error |-> error]

\* this.post of a message with the id of run r
Post(o, r, msg) == [o EXCEPT !.posted[r] = Append(@, msg)]

\* processOCR, catch: OCR_ERROR with the id and the message of the error
ProcessCatch(o, r, error) ==
    [Post(o, r, OcrError(error)) EXCEPT !.run[r].pc = "returned"]

\* processOCR after `if (!this.isInitialized) await this.initialize()`, up to
\* the first await of detect
BeginDetect(o, r) ==
    LET o1 == Post(o, r, OcrProgress("layout_detection", 100))
    IN  IF ~o1.instance["layoutDetector"].initialized
           THEN ProcessCatch(o1, r, "Layout detector not initialized")
           ELSE [Post(o1, r, OcrProgress("layout_detection", 130))
                    EXCEPT !.run[r].pc = "detect"]

\* processOCR after the recognition loop: reading order, txt, OCR_COMPLETE
FinishThenProgress(o, r, perm) ==
    LET orderedResults == ReadingOrderProcess(o.run[r].recognitionResults, perm)
        o1 == Post(o, r, OcrComplete(orderedResults, FullText(orderedResults)))
        o2 == Post(o1, r, OcrProgress("reading_order", 800))
        o3 == Post(o2, r, OcrProgress("generating_output", 900))
    IN  [o3 EXCEPT !.run[r].pc = "returned"]
Finish(o, r, perm) ==
    LET orderedResults == ReadingOrderProcess(o.run[r].recognitionResults, perm)
        o1 == Post(o, r, OcrProgress("reading_order", 800))
        o2 == Post(o1, r, OcrProgress("generating_output", 900))
        o3 == Post(o2, r, OcrComplete(orderedResults, FullText(orderedResults)))
    IN  [o3 EXCEPT !.run[r].pc = "returned"]

\* the head of the recognition loop for region i (from 0): the loop ends, or
\* recognize is called and runs up to its await; recognizeCropped throws
\* before its try when the selected instance is not initialized
NextRegion(o, r, perm) ==
    LET run == o.run[r]
    IN  IF run.i >= Len(run.textRegions) THEN Finish(o, r, perm)
        ELSE LET recognizer ==
                     OcrSelectRecognizer(run.textRegions[run.i + 1].charCountCategory)
             IN  IF ~o.instance[recognizer].initialized
                    THEN ProcessCatch(o, r, "Text recognizer not initialized")
                    ELSE [o EXCEPT !.run[r].pc = "recognize"]

\* postprocessOutput as detect sees it: the regions, or [] when an exception
\* in its try block was caught
PostprocessPropagates(threw, regions) ==
    IF threw THEN [kind |-> "throw", regions |-> <<>>]
    ELSE [kind |-> "return", regions |-> regions]
PostprocessOutcome(threw, regions) ==
    [kind |-> "return", regions |-> IF threw THEN <<>> ELSE regions]

OcrWorkerInit ==
    ocrJob = [isInitialized |-> FALSE,
              instance |-> [name \in Range(InstanceOrder) |-> NoInstance],
              inbox |-> [k \in 1..(MaxOcrJobs + 1) |-> k - 1],
              run |-> [r \in OcrRuns |-> NoRun],
              posted |-> [r \in OcrRuns |-> <<>>],
              initErrors |-> 0]

\* self.onmessage takes the next message: INITIALIZE calls initialize,
\* OCR_PROCESS calls processOCR, which calls initialize when the worker is not
\* initialized
OcrStart(r) ==
    /\ ocrJob.inbox # <<>>
    /\ Head(ocrJob.inbox) = r
    /\ LET o == [ocrJob EXCEPT !.inbox = Tail(@)]
       IN  ocrJob' =
             IF ~o.isInitialized THEN [o EXCEPT !.run[r].pc = "loading"]
             ELSE IF r = 0 THEN [o EXCEPT !.run[r].pc = "returned"]
             ELSE BeginDetect(o, r)
    /\ UNCHANGED <<pipeVars, modelCache, loadCalls, decoder, selection, layout,
                   suppression, partition, recJob, lifecycle, initObject, app, equiv>>

\* initialize goes on after an await: the downloads are done, or the session
\* of the instance assigned last is created; the next instance is assigned,
\* or isInitialized is set and the caller goes on
OcrInitStep(r) ==
    /\ ocrJob.run[r].pc \in InitPcs
    /\ LET k == InitPosition(ocrJob.run[r].pc)
           name == InstanceOrder[k]
           o1 == IF k >= 1 /\ ocrJob.instance[name].run = r
                    THEN [ocrJob EXCEPT !.instance[name].initialized = TRUE]
                    ELSE ocrJob
       IN  ocrJob' =
             IF k < 4
                THEN [o1 EXCEPT !.instance[InstanceOrder[k + 1]] = FreshInstance(r),
                                !.run[r].pc = InitPc(k + 1)]
                ELSE LET o2 == [o1 EXCEPT !.isInitialized = TRUE]
                     IN  IF r = 0 THEN [o2 EXCEPT !.run[r].pc = "returned"]
                         ELSE BeginDetect(o2, r)
    /\ UNCHANGED <<pipeVars, modelCache, loadCalls, decoder, selection, layout,
                   suppression, partition, recJob, lifecycle, initObject, app, equiv>>

\* initialize, catch: a download or a session creation failed; OCR_ERROR
\* without id is posted and the error is thrown on to the caller
OcrInitFail(r) ==
    /\ ocrJob.run[r].pc \in InitPcs
    /\ LET o1 == [ocrJob EXCEPT !.initErrors = @ + 1]
       IN  ocrJob' = IF r = 0 THEN [o1 EXCEPT !.run[r].pc = "returned"]
                     ELSE ProcessCatch(o1, r, "initialization")
    /\ UNCHANGED <<pipeVars, modelCache, loadCalls, decoder, selection, layout,
                   suppression, partition, recJob, lifecycle, initObject, app, equiv>>

\* detect goes on after its awaits: preprocessing or inference fails, or the
\* output is post-processed (with or without an exception) and the
\* recognition loop starts
OcrDetect(r) ==
    /\ ocrJob.run[r].pc = "detect"
    /\ \E inferred \in BOOLEAN, threw \in BOOLEAN, regions \in OcrRegionLists :
          LET o1 == Post(ocrJob, r, OcrProgress("layout_detection", 250))
              o2 == Post(o1, r, OcrProgress("layout_detection", 340))
              o3 == Post(o2, r, OcrProgress("layout_detection", 400))
              o4 == Post(o3, r, OcrProgress("text_recognition", 400))
              detections == PostprocessOutcome(threw, regions)
          IN  ocrJob' =
                IF ~inferred THEN ProcessCatch(o1, r, "inference")
                ELSE IF detections.kind = "throw"
                     THEN ProcessCatch([o2 EXCEPT !.run[r].postprocessThrew = threw],
                                       r, "postprocessing")
                     ELSE NextRegion([o4 EXCEPT !.run[r].textRegions = detections.regions,
                                                !.run[r].postprocessThrew = threw],
                                     r, <<>>)
    /\ UNCHANGED <<pipeVars, modelCache, loadCalls, decoder, selection, layout,
                   suppression, partition, recJob, lifecycle, initObject, app, equiv>>

\* recognize of region i goes on after its await: the block is pushed with
\* the text read, or with the empty text when inference or decoding threw
OcrRecognize(r) ==
    /\ ocrJob.run[r].pc = "recognize"
    /\ LET run == ocrJob.run[r]
           n == Len(run.textRegions)
           region == run.textRegions[run.i + 1]
       IN  \E fails \in BOOLEAN, perm \in Orders(n) :
              LET result == RecognizeCropped(region.bbox, fails)
                  block == [bbox |-> region.bbox,
                            charCountCategory |-> region.charCountCategory,
                            text |-> result.text,
                            readingOrder |-> run.i + 1]
                  o1 == [ocrJob EXCEPT
                            !.run[r].recognitionResults = Append(@, block),
                            !.run[r].threw = IF fails THEN @ \cup {run.i + 1} ELSE @,
                            !.run[r].i = @ + 1]
                  o2 == Post(o1, r, OcrProgress("text_recognition",
                                                400 + (400 * (run.i + 1)) \div n))
              IN  ocrJob' = NextRegion(o2, r, perm)
    /\ UNCHANGED <<pipeVars, modelCache, loadCalls, decoder, selection, layout,
                   suppression, partition, recJob, lifecycle, initObject, app, equiv>>

OcrWorkerNext ==
    \/ \E r \in OcrRuns : OcrStart(r)
    \/ \E r \in OcrRuns : OcrInitStep(r)
    \/ \E r \in OcrRuns : OcrInitFail(r)
    \/ \E r \in OcrJobIds : OcrDetect(r)
    \/ \E r \in OcrJobIds : OcrRecognize(r)

(***************************************************************************)
(* The REC_PROCESS branch of the recognition worker on its own: one message *)
(* with the job list of a worker, in a worker whose REC_INIT has            *)
(* initialized k of its three recognizers.                                  *)
(***************************************************************************)

MaxJobRegions == 3

\* the pages the job lists are cut from: each region of its own category
JobRegionLists ==
    UNION {{[k \in 1..n |-> [bbox |-> IF k % 2 = 1 THEN "boxA" ELSE "boxB",
                             charCountCategory |-> cs[k]]] :
               cs \in [1..n -> CategoryChoices]} : n \in 1..MaxJobRegions}

\* the job lists dispatch posts to the two workers of such a page; an empty
\* list is not posted
RecJobLists ==
    {Chunk(w, 2, textRegions, [k \in 1..Len(textRegions) |-> textRegions[k].bbox]) :
        w \in 1..2, textRegions \in JobRegionLists} \ {<<>>}

\* In a rec job record, i is the number of jobs the loop has gone through;
\* failing and handled are history: the positions of the jobs whose
\* inference threw, and the ids of the jobs in the order they were handled;
\* posted holds the messages the handler has posted, answer the last one.
RecJobInit ==
    \E jobs \in RecJobLists, k \in 0..3 :
        recJob = [pc |-> "received", jobs |-> jobs, k |-> k, failing |-> {},
                  i |-> 0, results |-> <<>>, handled |-> <<>>, posted |-> <<>>,
                  answer |-> RecMsg("", <<>>, <<>>, 0)]

\* self.postMessage of the handler
RecPost(rj, msg) ==
    [rj EXCEPT !.pc = "answered", !.posted = Append(@, msg), !.answer = msg]

\* the catch of the REC_PROCESS branch
RecCatchPostsResults(rj) == RecPost(rj, RecMsg("REC_COMPLETE", <<>>, rj.results, 0))
RecCatch(rj) == RecPost(rj, RecMsg("REC_ERROR", <<>>, <<>>, 0))

\* one turn of `for (const job of msg.jobs)`: recognizeCropped of the next
\* job throws before its try when the recognizer is not initialized, else
\* its result is pushed; after the last job REC_COMPLETE is posted
RecLoop(rj, fails) ==
    LET job == rj.jobs[rj.i + 1]
        r == RecognizeCropped(job.croppedImageData, fails)
        pushed == [rj EXCEPT
                      !.pc = "loop",
                      !.i = @ + 1,
                      !.results = Append(@, [id |-> job.id, text |-> r.text,
                                             confidence |-> r.confidence]),
                      !.handled = Append(@, job.id),
                      !.failing = IF fails THEN @ \cup {rj.i + 1} ELSE @]
    IN  IF ~RecognizerInitialized(selectRecognizer(job.charCountCategory), rj.k)
           THEN RecCatch(rj)
        ELSE IF pushed.i < Len(rj.jobs) THEN pushed
        ELSE RecPost(pushed, RecMsg("REC_COMPLETE", <<>>, pushed.results, 0))

\* self.onmessage, REC_PROCESS: the handler goes on up to its next await,
\* whether the inference of the job throws or not
RecProcess ==
    /\ recJob.pc \in {"received", "loop"}
    /\ \E fails \in BOOLEAN : recJob' = RecLoop(recJob, fails)
    /\ UNCHANGED <<pipeVars, modelCache, loadCalls, decoder, selection, layout,
                   suppression, partition, ocrJob, lifecycle, initObject, app, equiv>>

\* an OCR worker after a successful INITIALIZE, with one OCR_PROCESS posted
OcrWorkerInitialized1 ==
    ocrJob = [isInitialized |-> TRUE,
              instance |-> [name \in Range(InstanceOrder) |->
                               [run |-> 0, initialized |-> TRUE]],
              inbox |-> <<1>>,
              run |-> [r \in OcrRuns |-> IF r = 0 THEN [NoRun EXCEPT !.pc = "returned"]
                                         ELSE NoRun],
              posted |-> [r \in OcrRuns |-> <<>>],
              initErrors |-> 0]

RecognizeNext ==
    \/ RecProcess
    \/ \E r \in OcrJobIds : OcrStart(r)
    \/ \E r \in OcrJobIds : OcrDetect(r)
    \/ \E r \in OcrJobIds : OcrRecognize(r)

(***************************************************************************)
(* The end of a worker: case TERMINATE of self.onmessage in ocr.worker.ts,  *)
(* REC_TERMINATE in the recognition worker, and the cleanup of the mount    *)
(* effect of the hook. The worker is either of the two; its inbox holds the *)
(* messages posted to it, jobs (OCR_PROCESS / REC_PROCESS) and terminate    *)
(* messages, named by their position. self.close() sets the closing flag of *)
(* the worker and discards the tasks queued in its event loop; a handler    *)
(* that awaits may still go on. worker.terminate() of the hook ends the     *)
(* worker from outside, some time after the call.                           *)
(*                                                                         *)
(* In a lifecycle record, handled, begunAfter, finishedAfter and discarded  *)
(* are history: a terminate message was handled, the jobs begun and the     *)
(* jobs finished after that, and the jobs that were discarded unhandled.    *)
(***************************************************************************)

MaxLifeMessages == 3

LifeMessageTypes == {"PROCESS", "TERMINATE"}

LifeInboxes == UNION {[1..n -> LifeMessageTypes] : n \in 0..MaxLifeMessages}

\* the PROCESS messages among the messages of a queue
QueuedJobs(inbox, consumed) ==
    {consumed + k : k \in {j \in 1..Len(inbox) : inbox[j] = "PROCESS"}}

LifecycleInit ==
    \E kind \in {"ocr", "rec"}, inbox \in LifeInboxes :
        lifecycle = [kind |-> kind, inbox |-> inbox, consumed |-> 0,
                     closing |-> FALSE, killed |-> FALSE, cleanup |-> "mounted",
                     inFlight |-> {}, finished |-> {}, disposed |-> FALSE,
                     handled |-> FALSE, begunAfter |-> {}, finishedAfter |-> {},
                     discarded |-> {}]

\* self.close()
CloseLeavesQueue(w) == w
Close(w) ==
    [w EXCEPT !.closing = TRUE,
              !.inbox = <<>>,
              !.consumed = @ + Len(w.inbox),
              !.discarded = @ \cup QueuedJobs(w.inbox, w.consumed)]

\* case 'TERMINATE': self.close(); the recognition worker disposes its
\* recognizers first
HandleTerminate(w) ==
    Close([w EXCEPT !.handled = TRUE, !.disposed = (w.kind = "rec")])

\* case 'OCR_PROCESS' / REC_PROCESS: the handler runs up to its first await
BeginJob(w, id) ==
    [w EXCEPT !.inFlight = @ \cup {id},
              !.begunAfter = IF w.handled THEN @ \cup {id} ELSE @]

\* the event loop of the worker hands the next message to self.onmessage
LifeDeliver ==
    /\ ~lifecycle.closing /\ ~lifecycle.killed
    /\ lifecycle.inbox # <<>>
    /\ LET id == lifecycle.consumed + 1
           w == [lifecycle EXCEPT !.inbox = Tail(@), !.consumed = id]
       IN  lifecycle' = IF Head(lifecycle.inbox) = "TERMINATE"
                           THEN HandleTerminate(w)
                           ELSE BeginJob(w, id)
    /\ UNCHANGED <<pipeVars, modelCache, loadCalls, decoder, selection, layout,
                   suppression, partition, ocrJob, recJob, initObject, app, equiv>>

\* a handler in flight goes on after its awaits and posts its answer
LifeFinish ==
    /\ ~lifecycle.killed
    /\ \E id \in lifecycle.inFlight :
          lifecycle' = [lifecycle EXCEPT
                           !.inFlight = @ \ {id},
                           !.finished = @ \cup {id},
                           !.finishedAfter = IF lifecycle.handled THEN @ \cup {id} ELSE @]
    /\ UNCHANGED <<pipeVars, modelCache, loadCalls, decoder, selection, layout,
                   suppression, partition, ocrJob, recJob, initObject, app, equiv>>

\* the cleanup of the mount effect: postMessage TERMINATE / REC_TERMINATE,
\* then worker.terminate(); a message posted to a closing worker is dropped
LifeCleanup ==
    /\ lifecycle.cleanup = "mounted"
    /\ lifecycle' = [lifecycle EXCEPT
                        !.cleanup = "terminate called",
                        !.inbox = IF lifecycle.closing THEN @ ELSE Append(@, "TERMINATE")]
    /\ UNCHANGED <<pipeVars, modelCache, loadCalls, decoder, selection, layout,
                   suppression, partition, ocrJob, recJob, initObject, app, equiv>>

\* worker.terminate() takes effect: the worker runs nothing any more
LifeKilled ==
    /\ lifecycle.cleanup = "terminate called"
    /\ ~lifecycle.killed
    /\ lifecycle' = [lifecycle EXCEPT
                        !.killed = TRUE,
                        !.inbox = <<>>,
                        !.consumed = @ + Len(lifecycle.inbox),
                        !.discarded = @ \cup QueuedJobs(lifecycle.inbox, lifecycle.consumed),
                        !.inFlight = {}]
    /\ UNCHANGED <<pipeVars, modelCache, loadCalls, decoder, selection, layout,
                   suppression, partition, ocrJob, recJob, initObject, app, equiv>>

LifecycleNext == LifeDeliver \/ LifeFinish \/ LifeCleanup \/ LifeKilled

(***************************************************************************)
(* The initialize methods of LayoutDetector, TextRecognizer and OCRWorker   *)
(* on one object of either class, called up to MaxInitCalls times. A call   *)
(* runs up to its next await in one step. sessions, downloads, fetches and  *)
(* posted count the calls of createSession, of loadModel, of fetch (the     *)
(* config of the recognizer) and of this.post made for the object; the     *)
(* progress reports of the downloads are left out.                          *)
(***************************************************************************)

MaxInitCalls == 3

InitKinds == {"LayoutDetector", "TextRecognizer", "OCRWorker"}

\* the awaits of initialize, in order
InitAwaits(kind) ==
    CASE kind = "LayoutDetector" -> <<"createSession">>
      [] kind = "TextRecognizer" -> <<"loadConfig", "createSession">>
      [] kind = "OCRWorker" -> <<"loadModel", "layoutDetector", "recognizer30",
                                 "recognizer50", "recognizer100">>

\* what a call does on its way to the await named: createSession is called
\* (for the worker inside the initialize of the new detector or recognizer,
\* after the OCR_PROGRESS of the stage), the config is fetched, or the
\* worker posts 'initializing' and calls loadModel for its four models
ToAwait(o, name) ==
    CASE name = "loadConfig" -> [o EXCEPT !.fetches = @ + 1]
      [] name = "loadModel" -> [o EXCEPT !.posted = @ + 1, !.downloads = @ + 4]
      [] name = "createSession" -> [o EXCEPT !.sessions = @ + 1]
      [] OTHER -> [o EXCEPT !.posted = @ + 1, !.sessions = @ + 1]

\* a call of initialize: awaiting its at-th await, returned, or threw
Awaiting(k) == [pc |-> "awaiting", at |-> k]
Returned == [pc |-> "returned", at |-> 0]
Threw == [pc |-> "threw", at |-> 0]

\* initialize up to its first await, as the call after the calls made so far
InitializeUnguarded(o) ==
    ToAwait([o EXCEPT !.calls = Append(@, Awaiting(1))], InitAwaits(o.kind)[1])
Initialize(o) ==
    IF o.initialized THEN [o EXCEPT !.calls = Append(@, Returned)]
    ELSE ToAwait([o EXCEPT !.calls = Append(@, Awaiting(1))], InitAwaits(o.kind)[1])

InitObjectInit ==
    \E kind \in InitKinds :
        initObject = [kind |-> kind, initialized |-> FALSE, calls |-> <<>>,
                      sessions |-> 0, downloads |-> 0, fetches |-> 0, posted |-> 0]

\* initialize is called
InitializeCall ==
    /\ Len(initObject.calls) < MaxInitCalls
    /\ initObject' = Initialize(initObject)
    /\ UNCHANGED <<pipeVars, modelCache, loadCalls, decoder, selection, layout,
                   suppression, partition, ocrJob, recJob, lifecycle, app, equiv>>

\* call c goes on after an await: to the next await, or to its end, where
\* initialized is set (the worker posts 'initialized')
InitializeStep(c) ==
    /\ initObject.calls[c].pc = "awaiting"
    /\ LET k == initObject.calls[c].at
           awaits == InitAwaits(initObject.kind)
       IN  initObject' =
             IF k < Len(awaits)
                THEN ToAwait([initObject EXCEPT !.calls[c] = Awaiting(k + 1)], awaits[k + 1])
                ELSE [initObject EXCEPT
                         !.calls[c] = Returned,
                         !.initialized = TRUE,
                         !.posted = IF initObject.kind = "OCRWorker" THEN @ + 1 ELSE @]
    /\ UNCHANGED <<pipeVars, modelCache, loadCalls, decoder, selection, layout,
                   suppression, partition, ocrJob, recJob, lifecycle, app, equiv>>

\* an await of call c rejects: the catch rethrows (the worker posts
\* OCR_ERROR first); loadConfig catches its own errors
InitializeThrow(c) ==
    /\ initObject.calls[c].pc = "awaiting"
    /\ InitAwaits(initObject.kind)[initObject.calls[c].at] # "loadConfig"
    /\ initObject' = [initObject EXCEPT
                         !.calls[c] = Threw,
                         !.posted = IF initObject.kind = "OCRWorker" THEN @ + 1 ELSE @]
    /\ UNCHANGED <<pipeVars, modelCache, loadCalls, decoder, selection, layout,
                   suppression, partition, ocrJob, recJob, lifecycle, app, equiv>>

InitObjectNext ==
    \/ InitializeCall
    \/ \E c \in 1..Len(initObject.calls) : InitializeStep(c)
    \/ \E c \in 1..Len(initObject.calls) : InitializeThrow(c)

(***************************************************************************)
(* App: the state that decides when a batch loop (runOCR) starts, the       *)
(* user's actions and the batch loops. A processImage call is abstracted to *)
(* its promise, which settles either way. processedImages and               *)
(* sessionResults are abstracted to their lengths. loops is the sequence of *)
(* the runOCR calls made so far: each with the page it is at, the length of *)
(* the processedImages its closure holds and the number of results it       *)
(* accumulated. A state update and the effect it triggers are one step.     *)
(***************************************************************************)
MaxBatches == 3
MaxAppPages == 2

AppInit ==
    app = [processedImages |-> 0, sessionResults |-> 0, isProcessing |-> FALSE,
           isReadyToProcess |-> FALSE, loops |-> <<>>]

\* const hasPendingImages = processedImages.length > 0 && !isWorking && !hasResults
hasPendingImages(a) ==
    a.processedImages > 0 /\ ~a.isProcessing /\ ~(a.sessionResults > 0)

\* the paste handler: if (sessionResults.length > 0 || isLoadingFiles || isProcessing) return
PasteReturns(a) == a.sessionResults > 0 \/ a.isProcessing

\* the effect of [isReadyToProcess]:
\* if (!isReadyToProcess || processedImages.length === 0 || isProcessing) return
EffectReturns(a) == ~a.isReadyToProcess \/ a.processedImages = 0 \/ a.isProcessing

\* runOCR up to its first await: processImage is called for page 0
runOCR(a) ==
    [a EXCEPT !.isProcessing = TRUE,
              !.sessionResults = 0,
              !.loops = Append(@, [pc |-> "awaiting", i |-> 0,
                                   total |-> a.processedImages, accum |-> 0])]

\* handleClear
handleClear(a) ==
    [a EXCEPT !.processedImages = 0, !.sessionResults = 0,
              !.isProcessing = FALSE, !.isReadyToProcess = FALSE]

\* runOCR after its loop and saveRun
RunOCREnd(a, l) ==
    [a EXCEPT !.isProcessing = FALSE, !.isReadyToProcess = FALSE,
              !.loops[l].pc = "finished"]

\* runOCR after the await of processImage for page i: the result is kept or
\* the error is logged; the next page, or the end of the loop
LoopResume(a, l, outcome) ==
    LET loop == a.loops[l]
        accum == IF outcome = "resolved" THEN loop.accum + 1 ELSE loop.accum
        a1 == [a EXCEPT !.loops[l].accum = accum,
                        !.loops[l].i = loop.i + 1,
                        !.sessionResults = IF outcome = "resolved" THEN accum ELSE @]
    IN  IF loop.i + 1 < loop.total THEN a1
        ELSE IF accum > 0 THEN [a1 EXCEPT !.loops[l].pc = "saving"]
        ELSE RunOCREnd(a1, l)

AppUnchanged ==
    UNCHANGED <<pipeVars, modelCache, loadCalls, decoder, selection, layout,
                suppression, partition, ocrJob, recJob, lifecycle, initObject, equiv>>

\* the user pastes or selects 1..MaxAppPages image files
AppFilesSelected ==
    /\ ~PasteReturns(app)
    /\ \E n \in 1..MaxAppPages : app' = [app EXCEPT !.processedImages = n]
    /\ AppUnchanged

\* the user presses start: onStartOCR sets isReadyToProcess, and the effect
\* runs when the value changed
AppStartOCR ==
    /\ hasPendingImages(app)
    /\ ~app.isReadyToProcess
    /\ Len(app.loops) < MaxBatches
    /\ LET a1 == [app EXCEPT !.isReadyToProcess = TRUE]
       IN  app' = IF EffectReturns(a1) THEN a1 ELSE runOCR(a1)
    /\ AppUnchanged

\* the user clicks the logo
AppHandleClear ==
    /\ app' = handleClear(app)
    /\ AppUnchanged

\* the processImage call a batch loop awaits settles
AppLoopResume(l) ==
    /\ app.loops[l].pc = "awaiting"
    /\ \E outcome \in {"resolved", "rejected"} : app' = LoopResume(app, l, outcome)
    /\ AppUnchanged

\* saveRun of a batch loop returns
AppLoopSaved(l) ==
    /\ app.loops[l].pc = "saving"
    /\ app' = RunOCREnd(app, l)
    /\ AppUnchanged

AppNext ==
    \/ AppFilesSelected
    \/ AppStartOCR
    \/ AppHandleClear
    \/ \E l \in 1..Len(app.loops) : AppLoopResume(l)
    \/ \E l \in 1..Len(app.loops) : AppLoopSaved(l)

(***************************************************************************)
(* The two recognition paths on the same page: the loop of                  *)
(* OCRWorker.processOCR (in-process, one region after the other) and        *)
(* runRecognition with N recognition workers. A page is its region list and *)
(* the set threw of the regions for which the inference of the selected     *)
(* recognizer throws, so both paths get the same output for each region.    *)
(* All recognizers are initialized. answered is the order in which the      *)
(* REC_COMPLETE messages of the workers arrive.                             *)
(***************************************************************************)
MaxEquivRegions == 3

EquivRegionLists ==
    UNION {{[k \in 1..n |-> [bbox |-> IF k % 2 = 1 THEN "boxA" ELSE "boxB",
                             charCountCategory |-> cs[k]]] :
               cs \in [1..n -> CategoryChoices]} : n \in 0..MaxEquivRegions}

EquivInit ==
    \E textRegions \in EquivRegionLists, hc \in {2, 3} :
      \E threw \in SUBSET (1..Len(textRegions)) :
        equiv = [textRegions |-> textRegions,
                 threw |-> threw,
                 N |-> N_REC_WORKERS(hc),
                 i |-> 0,
                 recognitionResults |-> <<>>,
                 answered |-> <<>>,
                 chunkResults |-> [w \in 1..N_REC_WORKERS(hc) |-> <<>>],
                 pool |-> [pc |-> "dispatched", recognitionResults |-> <<>>]]

\* processOCR, the body of `for (let i = 0; i < textRegions.length; i++)`:
\* the block pushed for region i (from 0)
ProcessOCRBlock(textRegions, i, threw) ==
    [bbox |-> textRegions[i + 1].bbox,
     charCountCategory |-> textRegions[i + 1].charCountCategory,
     text |-> RecognizeCropped(textRegions[i + 1].bbox, (i + 1) \in threw).text,
     readingOrder |-> i + 1]

\* the chunk of worker w and the positions of its jobs whose inference throws
EquivChunk(e, w) ==
    Chunk(w, e.N, e.textRegions, [k \in 1..Len(e.textRegions) |-> e.textRegions[k].bbox])
EquivFailing(e, w) ==
    {j \in 1..Len(EquivChunk(e, w)) : (EquivChunk(e, w)[j].id + 1) \in e.threw}

\* one turn of the recognition loop of processOCR
EquivProcessOCR ==
    /\ equiv.i < Len(equiv.textRegions)
    /\ equiv' = [equiv EXCEPT
          !.recognitionResults =
              Append(@, ProcessOCRBlock(equiv.textRegions, equiv.i, equiv.threw)),
          !.i = @ + 1]
    /\ UNCHANGED <<pipeVars, modelCache, loadCalls, decoder, selection, layout,
                   suppression, partition, ocrJob, recJob, lifecycle, initObject, app>>

\* the REC_COMPLETE of worker w arrives: its dispatch promise resolves
EquivRecComplete(w) ==
    /\ equiv.pool.pc = "dispatched"
    /\ w \notin Range(equiv.answered)
    /\ EquivChunk(equiv, w) # <<>>
    /\ equiv' = [equiv EXCEPT
          !.answered = Append(@, w),
          !.chunkResults[w] =
              RecProcessAnswer(EquivChunk(equiv, w), 3, EquivFailing(equiv, w), 0).results]
    /\ UNCHANGED <<pipeVars, modelCache, loadCalls, decoder, selection, layout,
                   suppression, partition, ocrJob, recJob, lifecycle, initObject, app>>

\* runRecognition: the early return of a page without regions, or the then
\* callback of Promise.all up to the reading-order assembly
EquivThen ==
    /\ equiv.pool.pc = "dispatched"
    /\ \A w \in 1..equiv.N : EquivChunk(equiv, w) # <<>> => w \in Range(equiv.answered)
    /\ equiv' = [equiv EXCEPT
          !.pool = [pc |-> "assembled",
                    recognitionResults |->
                        IF NoRegions(equiv.textRegions) THEN <<>>
                        ELSE RecognitionResults(equiv.textRegions,
                                                FlatSeq(equiv.chunkResults))]]
    /\ UNCHANGED <<pipeVars, modelCache, loadCalls, decoder, selection, layout,
                   suppression, partition, ocrJob, recJob, lifecycle, initObject, app>>

EquivNext ==
    \/ EquivProcessOCR
    \/ \E w \in 1..equiv.N : EquivRecComplete(w)
    \/ EquivThen

(***************************************************************************)
(* Specifications.                                                          *)
(***************************************************************************)

DecoderIdle == decoder = <<>>
SelectionIdle == selection = <<>>
LayoutIdle == layout = <<>>
SuppressionIdle == suppression = <<>>
PartitionIdle == partition = <<>>
OcrJobIdle == ocrJob = <<>>
RecJobIdle == recJob = <<>>
LifecycleIdle == lifecycle = <<>>
InitObjectIdle == initObject = <<>>
AppIdle == app = <<>>
EquivIdle == equiv = <<>>

\* the page: the hook, the batch loop and the workers
Init ==
    /\ PipeInit
    /\ LoaderIdle /\ DecoderIdle /\ SelectionIdle /\ LayoutIdle /\ SuppressionIdle
    /\ PartitionIdle /\ OcrJobIdle /\ RecJobIdle /\ LifecycleIdle /\ InitObjectIdle /\ AppIdle /\ EquivIdle

Next ==
    \/ RunOCR
    \/ BatchResume
    \/ \E w \in Workers : RecWorkerInit(w)
    \/ \E w \in Workers : RecWorkerInitStep(w)
    \/ \E w \in Workers : RecWorkerReady(w)
    \/ \E w \in Workers : RecWorkerInitError(w)
    \/ \E w \in Workers : RecWorkerProcess(w)
    \/ OcrWorkerInitialize
    \/ OcrWorkerInitialized
    \/ OcrWorkerInitError
    \/ OcrWorkerLayoutDetect
    \/ ProcessRegion
    \/ OcrWorkerProcess
    \/ OcrWorkerProcessRecognize
    \/ OcrWorkerProcessEnd

Spec == Init /\ [][Next]_vars

\* the model loader of one worker, with its calls in any interleaving
InitLoader ==
    /\ PipeInit
    /\ LoaderInit /\ DecoderIdle /\ SelectionIdle /\ LayoutIdle /\ SuppressionIdle
    /\ PartitionIdle /\ OcrJobIdle /\ RecJobIdle /\ LifecycleIdle /\ InitObjectIdle /\ AppIdle /\ EquivIdle

SpecLoader == InitLoader /\ [][LoaderNext]_vars

\* decodeOutput on the output tensors and charLists of DecoderInit
InitDecode ==
    /\ PipeInit
    /\ LoaderIdle /\ DecoderInit /\ SelectionIdle /\ LayoutIdle /\ SuppressionIdle
    /\ PartitionIdle /\ OcrJobIdle /\ RecJobIdle /\ LifecycleIdle /\ InitObjectIdle /\ AppIdle /\ EquivIdle

SpecDecode == InitDecode /\ [][DecoderNext]_vars

\* the recognizer choices of both workers for the job lists of SelectionInit
InitSelect ==
    /\ PipeInit
    /\ LoaderIdle /\ DecoderIdle /\ SelectionInit /\ LayoutIdle /\ SuppressionIdle
    /\ PartitionIdle /\ OcrJobIdle /\ RecJobIdle /\ LifecycleIdle /\ InitObjectIdle /\ AppIdle /\ EquivIdle

SpecSelect == InitSelect /\ [][SelectionNext]_vars

\* postprocessOutput on the model outputs and image sizes of LayoutInit
InitLayout ==
    /\ PipeInit
    /\ LoaderIdle /\ DecoderIdle /\ SelectionIdle /\ LayoutInit /\ SuppressionIdle
    /\ PartitionIdle /\ OcrJobIdle /\ RecJobIdle /\ LifecycleIdle /\ InitObjectIdle /\ AppIdle /\ EquivIdle

SpecLayout == InitLayout /\ [][LayoutNext]_vars

\* nms on the detection lists of SuppressionInit
InitNms ==
    /\ PipeInit
    /\ LoaderIdle /\ DecoderIdle /\ SelectionIdle /\ LayoutIdle /\ SuppressionInit
    /\ PartitionIdle /\ OcrJobIdle /\ RecJobIdle /\ LifecycleIdle /\ InitObjectIdle /\ AppIdle /\ EquivIdle

SpecNms == InitNms /\ [][SuppressionNext]_vars


\* the partition of runRecognition on the pages and worker counts of PartitionInit
InitPartition ==
    /\ PipeInit
    /\ LoaderIdle /\ DecoderIdle /\ SelectionIdle /\ LayoutIdle /\ SuppressionIdle
    /\ PartitionInit /\ OcrJobIdle /\ RecJobIdle /\ LifecycleIdle /\ InitObjectIdle /\ AppIdle /\ EquivIdle

SpecPartition == InitPartition /\ [][PartitionNext]_vars

\* the OCR worker handling INITIALIZE and the OCR_PROCESS messages 1..MaxOcrJobs
InitOcrWorker ==
    /\ PipeInit
    /\ LoaderIdle /\ DecoderIdle /\ SelectionIdle /\ LayoutIdle /\ SuppressionIdle
    /\ PartitionIdle /\ OcrWorkerInit /\ RecJobIdle /\ LifecycleIdle /\ InitObjectIdle /\ AppIdle /\ EquivIdle

SpecOcrWorker == InitOcrWorker /\ [][OcrWorkerNext]_vars

\* the recognition loops of both workers: a REC_PROCESS message in a
\* recognition worker, an OCR_PROCESS message in an initialized OCR worker
InitRecognize ==
    /\ PipeInit
    /\ LoaderIdle /\ DecoderIdle /\ SelectionIdle /\ LayoutIdle /\ SuppressionIdle
    /\ PartitionIdle /\ OcrWorkerInitialized1 /\ RecJobInit /\ LifecycleIdle /\ InitObjectIdle /\ AppIdle /\ EquivIdle

SpecRecognize == InitRecognize /\ [][RecognizeNext]_vars

\* a worker, the messages posted to it and its termination
InitLifecycle ==
    /\ PipeInit
    /\ LoaderIdle /\ DecoderIdle /\ SelectionIdle /\ LayoutIdle /\ SuppressionIdle
    /\ PartitionIdle /\ OcrJobIdle /\ RecJobIdle /\ LifecycleInit /\ InitObjectIdle /\ AppIdle /\ EquivIdle

SpecLifecycle == InitLifecycle /\ [][LifecycleNext]_vars

\* an object of one of the three classes and the calls of its initialize
InitInitialize ==
    /\ PipeInit
    /\ LoaderIdle /\ DecoderIdle /\ SelectionIdle /\ LayoutIdle /\ SuppressionIdle
    /\ PartitionIdle /\ OcrJobIdle /\ RecJobIdle /\ LifecycleIdle /\ InitObjectInit /\ AppIdle /\ EquivIdle

SpecInitialize == InitInitialize /\ [][InitObjectNext]_vars

\* App: the user's actions and the batch loops they start
InitApp ==
    /\ PipeInit
    /\ LoaderIdle /\ DecoderIdle /\ SelectionIdle /\ LayoutIdle /\ SuppressionIdle
    /\ PartitionIdle /\ OcrJobIdle /\ RecJobIdle /\ LifecycleIdle /\ InitObjectIdle
    /\ AppInit /\ EquivIdle

SpecApp == InitApp /\ [][AppNext]_vars

(***************************************************************************)
(* Progress of the page job and of the startup. The user starts batches of  *)
(* pages with no or two regions; the OCR worker is the worker of the        *)
(* sources, whose switch has no case for LAYOUT_DETECT, or the worker that  *)
(* answers it. Fairness: every worker goes on with the message it is        *)
(* handling and takes the next message of its inbox (no hung inference, no  *)
(* crash), and the continuation of a settled await runs. The user's start   *)
(* of a batch is not forced.                                                *)
(***************************************************************************)
SettleRegionLists ==
    {<<>>} \cup {RegionList(2, "boxA", c) : c \in CategoryChoices}

SettleLayoutDetect ==
    OcrWorkerLayoutDetect /\ page'.textRegions \in SettleRegionLists

RecWorkerStep(w) ==
    \/ RecWorkerInit(w)
    \/ RecWorkerInitStep(w)
    \/ RecWorkerReady(w)
    \/ RecWorkerInitError(w)
    \/ RecWorkerProcess(w)

OcrWorkerStep ==
    \/ OcrWorkerInitialize
    \/ OcrWorkerInitialized
    \/ OcrWorkerInitError
    \/ SettleLayoutDetect
    \/ OcrWorkerNoCase

NextSettle ==
    \/ RunOCR
    \/ BatchResume
    \/ OcrWorkerStep
    \/ \E w \in Workers : RecWorkerStep(w)

FairSettle ==
    /\ WF_vars(BatchResume)
    /\ WF_vars(OcrWorkerStep)
    /\ \A w \in 1..MaxWorkers : WF_vars(RecWorkerStep(w))

SpecSettle == Init /\ [][NextSettle]_vars /\ FairSettle

\* one page recognized in-process and by the worker pool
InitEquiv ==
    /\ PipeInit
    /\ LoaderIdle /\ DecoderIdle /\ SelectionIdle /\ LayoutIdle /\ SuppressionIdle
    /\ PartitionIdle /\ OcrJobIdle /\ RecJobIdle /\ LifecycleIdle /\ InitObjectIdle
    /\ AppIdle /\ EquivInit

SpecEquiv == InitEquiv /\ [][EquivNext]_vars

\* the results with id i among all the results the page's dispatch promises resolved with
ReceivedResults(i) ==
    {r \in UNION {Range(page.chunkResults[w]) : w \in 1..nRecWorkers} : r.id = i}

C2_RecErrorRejectsPage ==
    \A p \in recErrorPages :
        /\ ~(page.id = p /\ page.promise = "resolved")
        /\ p \notin Range(sessionResults)

(***************************************************************************)
(* C10. When LAYOUT_DONE reports zero regions, the promise of the page is   *)
(* resolved with textBlocks = [] and fullText = '', jobState.status is      *)
(* 'done' when the promise settles, and no REC_PROCESS of that page is sent *)
(* to any recognition worker.                                               *)
(***************************************************************************)
C10_EmptyPageDone ==
    page.layout = "empty" =>
        /\ page.promise = "resolved"
        /\ page.result = [textBlocks |-> <<>>, fullText |-> ""]
        /\ (ResumePending => jobState.status = "done")
        /\ page.dispatch = <<>>
        /\ \A w \in 1..nRecWorkers :
              \A k \in 1..Len(recInbox[w]) : recInbox[w][k].page # page.id

\* the second page of a batch is empty and has just been resolved
C10_Witness ==
    /\ page.layout = "empty"
    /\ page.id = 1
    /\ ResumePending
    /\ jobState.status = "done"

(***************************************************************************)
(* C3. loadModel uses a cache entry only when its version is MODEL_VERSION: *)
(* a call that returned from the cache saw an entry of the current version  *)
(* and returns its bytes; a call that saw an entry of another version (or   *)
(* none) goes on to download; and the entry the store holds for the name    *)
(* right after the call's save has the current version and the downloaded   *)
(* bytes.                                                                   *)
(***************************************************************************)
C3_CacheUsedOnlyForCurrentVersion ==
    \A c \in Loads :
        LET call == loadCalls[c]
        IN  /\ call.source = "cache" =>
                  /\ call.seen # NoEntry
                  /\ call.seen.version = MODEL_VERSION
                  /\ call.data = call.seen.data
            /\ (call.pc # "cache" /\ call.modelType \in ModelTypes
                  /\ ~(call.pc = "rejected" /\ call.error = "cache read")
                  /\ (call.seen = NoEntry \/ call.seen.version # MODEL_VERSION)) =>
                  /\ call.source # "cache"
                  /\ call.pc \in {"download", "save", "returned", "rejected"}
                  /\ call.pc = "returned" => call.data = ServerBytes(call.modelType)
            /\ (call.pc = "returned" /\ call.source = "download") =>
                  call.saved = [name |-> call.modelType, data |-> call.data,
                                version |-> MODEL_VERSION]

\* an entry of an older build was found, the model was downloaded and stored
C3_Witness ==
    \E c \in Loads :
        /\ loadCalls[c].pc = "returned"
        /\ loadCalls[c].source = "download"
        /\ loadCalls[c].seen # NoEntry
        /\ loadCalls[c].seen.version = OlderVersion
        /\ modelCache[loadCalls[c].modelType].version = MODEL_VERSION
        /\ modelCache[loadCalls[c].modelType].data = ServerBytes(loadCalls[c].modelType)

\* the arg-max index of every position of an output tensor
ArgMaxIndices(outputs) ==
    [i \in 1..outputs.dims[2] |-> MaxIndex(outputs.data, i - 1, outputs.dims[3])]

\* the number of positions before the first arg-max index 0
RECURSIVE LengthBeforeZero(_)
LengthBeforeZero(indices) ==
    IF indices = <<>> \/ Head(indices) = 0 THEN 0
    ELSE 1 + LengthBeforeZero(Tail(indices))

CutAtFirstZero(indices) == SubSeq(indices, 1, LengthBeforeZero(indices))

\* the output tensor reduced to the positions before the first arg-max index 0
OutputBeforeZero(outputs) ==
    LET n == LengthBeforeZero(ArgMaxIndices(outputs))
    IN  OutputTensor(SubSeq(outputs.data, 1, n * outputs.dims[3]),
                     <<1, n, outputs.dims[3]>>)

\* the positions from the first arg-max index 0 on contribute nothing
NothingFromFirstZeroOn ==
    (decoder.pc = "decoded" /\ decoder.outputs.present) =>
        decoder.result.text
            = DecodeOutput(OutputBeforeZero(decoder.outputs), decoder.charList).text

(***************************************************************************)
(* C4, as stated. Decoding emits no character for a position at or after    *)
(* the first position whose arg-max index is 0, and the sequence            *)
(* [5, 5, 0, 99] decodes to exactly the one character vocabulary[4].        *)
(***************************************************************************)
C4_AsStated ==
    /\ NothingFromFirstZeroOn
    /\ (decoder.pc = "decoded" /\ decoder.outputs.present
          /\ ArgMaxIndices(decoder.outputs) = <<5, 5, 0, 99>>
          /\ Len(decoder.charList) >= 5) =>
          decoder.result.text = <<decoder.charList[5]>>

(***************************************************************************)
(* C4, amended. Decoding emits no character for a position at or after the  *)
(* first position whose arg-max index is 0, and the sequence [5, 5, 0, 99]  *)
(* decodes to the one character vocabulary[4], or to the empty text when    *)
(* that character is whitespace, which the final trim removes.              *)
(***************************************************************************)
C4_StopsAtFirstZero ==
    /\ NothingFromFirstZeroOn
    /\ (decoder.pc = "decoded" /\ decoder.outputs.present
          /\ ArgMaxIndices(decoder.outputs) = <<5, 5, 0, 99>>
          /\ Len(decoder.charList) >= 5) =>
          decoder.result.text
             = IF IsWhitespace(decoder.charList[5]) THEN <<>> ELSE <<decoder.charList[5]>>

\* [5, 5, 0, 99] decoded over a vocabulary whose character 4 is a letter
C4_Witness ==
    /\ decoder.pc = "decoded"
    /\ decoder.outputs.present
    /\ ArgMaxIndices(decoder.outputs) = <<5, 5, 0, 99>>
    /\ Len(decoder.charList) = 99
    /\ ~IsWhitespace(decoder.charList[5])
    /\ decoder.result.text = <<decoder.charList[5]>>

\* the reference rule: runs of equal indices collapse
RECURSIVE CollapseRuns(_)
CollapseRuns(indices) ==
    IF Len(indices) <= 1 THEN indices
    ELSE IF indices[1] = indices[2] THEN CollapseRuns(Tail(indices))
    ELSE <<Head(indices)>> \o CollapseRuns(Tail(indices))

\* the reference rule: indices 1, 2 and 3 emit nothing
DropControl(indices) == SelectSeq(indices, LAMBDA k : k \notin {1, 2, 3})

\* the reference rule: index k maps to vocabulary[k-1]
MapVocabulary(indices, vocabulary) ==
    [j \in 1..Len(indices) |-> vocabulary[indices[j]]]

\* the vocabulary has a character for every index of the sequence
AllReferenced(indices, vocabulary) ==
    \A j \in 1..Len(indices) : indices[j] >= 4 => indices[j] <= Len(vocabulary)

(***************************************************************************)
(* C5, as stated. Over a vocabulary that contains all referenced indices,   *)
(* decodeOutput returns the characters of the reference rule: cut at the    *)
(* first 0, collapse the runs of equal indices of the sequence, drop 1, 2   *)
(* and 3, map every remaining k to vocabulary[k-1].                         *)
(***************************************************************************)
C5_AsStated ==
    (decoder.pc = "decoded" /\ decoder.outputs.present
       /\ AllReferenced(ArgMaxIndices(decoder.outputs), decoder.charList)) =>
       decoder.result.text
          = MapVocabulary(
               DropControl(CollapseRuns(CutAtFirstZero(ArgMaxIndices(decoder.outputs)))),
               decoder.charList)

(***************************************************************************)
(* C5, amended. Over a vocabulary that contains all referenced indices,     *)
(* decodeOutput returns the text of this rule: cut at the first 0, drop 1,  *)
(* 2 and 3, then collapse the runs of equal indices among those that        *)
(* remain, map every remaining k to vocabulary[k-1], and trim the           *)
(* whitespace at both ends of the joined text.                              *)
(***************************************************************************)
C5_DecodeRule ==
    (decoder.pc = "decoded" /\ decoder.outputs.present
       /\ AllReferenced(ArgMaxIndices(decoder.outputs), decoder.charList)) =>
       decoder.result.text
          = Trim(MapVocabulary(
               CollapseRuns(DropControl(CutAtFirstZero(ArgMaxIndices(decoder.outputs)))),
               decoder.charList))

\* two equal indices separated by a control token decode to one character
C5_Witness ==
    /\ decoder.pc = "decoded"
    /\ decoder.outputs.present
    /\ ArgMaxIndices(decoder.outputs) = <<5, 1, 5>>
    /\ Len(decoder.charList) = 99
    /\ ~IsWhitespace(decoder.charList[5])
    /\ decoder.result.text = <<decoder.charList[5]>>

\* the instance the rule of C6 assigns to a category, by its constructed width
CascadeWidth(charCountCategory) ==
    IF charCountCategory = 3 THEN 256
    ELSE IF charCountCategory = 2 THEN 384
    ELSE 768

(***************************************************************************)
(* C6. Both workers select the same instance for every category: the        *)
(* instance constructed for width 256 and the recognition30 model for 3     *)
(* and only for 3, the one for width 384 and recognition50 for 2 and only   *)
(* for 2, the one for width 768 and recognition100 for every other or an    *)
(* absent value.                                                            *)
(***************************************************************************)
C6_SameCascadeSelection ==
    LET categories == selection.categories
        Rule(c, r) ==
            /\ r.constructed = <<1, 3, 16, CascadeWidth(c)>>
            /\ (r.constructed[4] = 256) <=> (c = 3)
            /\ (r.constructed[4] = 384) <=> (c = 2)
            /\ (r.constructed[4] = 768) <=> (c \notin {2, 3})
            /\ r.model = (CASE c = 3 -> "recognition30"
                            [] c = 2 -> "recognition50"
                            [] OTHER -> "recognition100")
    IN  /\ \A j \in 1..Len(selection.ocr) : Rule(categories[j], selection.ocr[j])
        /\ \A j \in 1..Len(selection.rec) : Rule(categories[j], selection.rec[j])
        /\ \A j \in 1..Min2(Len(selection.ocr), Len(selection.rec)) :
              selection.ocr[j] = selection.rec[j]

\* both workers have chosen for the categories 3, 2 and absent
C6_Witness ==
    /\ selection.categories = <<3, 2, Absent>>
    /\ selection.configShape = <<>>
    /\ Len(selection.ocr) = 3
    /\ Len(selection.rec) = 3
    /\ selection.ocr[1].inputShape[4] = 256
    /\ selection.rec[2].inputShape[4] = 384
    /\ selection.rec[3].inputShape[4] = 768

(***************************************************************************)
(* C7. Every region postprocessOutput returns has confidence >= 0.3,        *)
(* width >= 10, height >= 10, x >= 0, y >= 0, x + width <= the original     *)
(* image width and y + height <= the original image height.                 *)
(***************************************************************************)
C7_RegionsInsideImage ==
    layout.pc = "detected" =>
        \A j \in 1..Len(layout.detections) :
            LET r == layout.detections[j]
            IN  /\ r.confidence >= 30
                /\ r.width >= 10
                /\ r.height >= 10
                /\ r.x >= 0
                /\ r.y >= 0
                /\ r.x + r.width <= layout.metadata.originalWidth
                /\ r.y + r.height <= layout.metadata.originalHeight

\* a box reaching over the right and lower edges was cut to the image, next
\* to one that began left of and above it
C7_Witness ==
    /\ layout.pc = "detected"
    /\ Len(layout.detections) = 2
    /\ \E j \in 1..2 :
          /\ layout.detections[j].x + layout.detections[j].width
                = layout.metadata.originalWidth
          /\ layout.detections[j].y + layout.detections[j].height
                = layout.metadata.originalHeight
          /\ layout.detections[j].confidence = 30
    /\ \E j \in 1..2 :
          /\ layout.detections[j].x = 0
          /\ layout.detections[j].y = 0
          /\ layout.output.bboxes[1] < 0 \/ layout.output.bboxes[5] < 0

(***************************************************************************)
(* C8. nms is idempotent: nms applied to the list nms returned gives the    *)
(* same detections in the same order.                                       *)
(***************************************************************************)
C8_NmsIdempotent ==
    suppression.pc = "twice" => suppression.twice = suppression.once

\* nms dropped a detection and kept two of equal confidence
C8_Witness ==
    /\ suppression.pc = "twice"
    /\ Len(suppression.detections) = 3
    /\ Len(suppression.once) = 2
    /\ suppression.once[1].confidence = suppression.once[2].confidence
    /\ suppression.twice = suppression.once

\* how often a detection occurs in a list
Count(list, d) == Cardinality({j \in 1..Len(list) : list[j] = d})

(***************************************************************************)
(* C9. nms returns detections of its input, each at most as often as the    *)
(* input has it, ordered by non-increasing confidence; every two kept       *)
(* detections have IoU < 0.5; every dropped detection has IoU >= 0.5 with   *)
(* some kept detection whose confidence is at least its own.                *)
(***************************************************************************)
C9_NmsKeepsMaxima ==
    suppression.pc \in {"once", "twice"} =>
        LET input == suppression.detections
            kept == suppression.once
        IN  /\ \A d \in Range(kept) : Count(kept, d) <= Count(input, d)
            /\ \A j \in 1..(Len(kept) - 1) : kept[j].confidence >= kept[j + 1].confidence
            /\ \A j, k \in 1..Len(kept) :
                  j < k => 2 * iou(kept[j], kept[k]).num < iou(kept[j], kept[k]).den
            /\ \A d \in Range(input) :
                  Count(kept, d) < Count(input, d) =>
                     \E k \in 1..Len(kept) :
                        /\ 2 * iou(kept[k], d).num >= iou(kept[k], d).den
                        /\ kept[k].confidence >= d.confidence

\* a detection whose IoU with a kept one is exactly 0.5 was dropped
C9_Witness ==
    /\ suppression.pc = "once"
    /\ Len(suppression.detections) = 3
    /\ Len(suppression.once) = 2
    /\ \E d \in Range(suppression.detections) :
          /\ d \notin Range(suppression.once)
          /\ \E k \in 1..2 : 2 * iou(suppression.once[k], d).num
                                = iou(suppression.once[k], d).den

(***************************************************************************)
(* Claims about the dispatch and the aggregation of runRecognition.         *)
(***************************************************************************)

\* the number of jobs of a job list whose id is i
JobsWithId(jobs, i) == Cardinality({k \in 1..Len(jobs) : jobs[k].id = i})

\* C11: for n regions and N workers the chunks are N job lists; region i is
\* in the list of worker i mod N, as a job with id i, its crop and its
\* category, and in no other list; no list has another job; the ids of each
\* list are strictly increasing; two lists differ in length by at most 1.
C11_RoundRobinPartition ==
    partition.pc = "dispatched" =>
        LET n == Len(partition.textRegions)
            N == partition.N
            chunks == partition.chunks
        IN  /\ Len(chunks) = N
            /\ \A i \in 0..(n - 1) : \A w \in 1..N :
                  /\ JobsWithId(chunks[w], i) = (IF w - 1 = i % N THEN 1 ELSE 0)
                  /\ w - 1 = i % N =>
                        Job(i, partition.textRegions, partition.croppedImages)
                            \in Range(chunks[w])
            /\ \A w \in 1..N : \A k \in 1..Len(chunks[w]) :
                  /\ chunks[w][k].id \in 0..(n - 1)
                  /\ k > 1 => chunks[w][k - 1].id < chunks[w][k].id
            /\ \A w1, w2 \in 1..N : Len(chunks[w1]) - Len(chunks[w2]) <= 1

\* more regions than workers, and a number that the workers do not divide
C11_Witness ==
    /\ partition.pc = "dispatched"
    /\ partition.N = 4
    /\ Len(partition.textRegions) = 9
    /\ Len(partition.chunks[1]) = 3
    /\ Len(partition.chunks[2]) = 2
    /\ partition.chunks[1][3].id = 8

\* C12: when every dispatch promise of a page with regions has resolved, the
\* page is resolved and not rejected, with one block per region, before and
\* after reading-order assembly; a region i for which the results of all
\* workers hold no entry with id i has the empty text in its block.
C12_MissingResultIsEmptyText ==
    (page.layout = "regions" /\ page.dispatch # <<>>
        /\ \A w \in 1..nRecWorkers : page.dispatch[w] = "resolved") =>
        LET n == Len(page.textRegions) IN
          /\ page.promise = "resolved"
          /\ Len(page.recognitionResults) = n
          /\ Len(page.result.textBlocks) = n
          /\ \A i \in 0..(n - 1) :
                ReceivedResults(i) = {} =>
                   /\ page.recognitionResults[i + 1].text = ""
                   /\ page.recognitionResults[i + 1].bbox = page.textRegions[i + 1].bbox
                   /\ \E b \in Range(page.result.textBlocks) :
                         b.bbox = page.textRegions[i + 1].bbox /\ b.text = ""

\* three regions, the results hold ids 0 and 1 and none with id 2
C12_Witness ==
    /\ page.promise = "resolved"
    /\ page.layout = "regions"
    /\ Len(page.textRegions) = 3
    /\ ReceivedResults(0) # {}
    /\ ReceivedResults(1) # {}
    /\ ReceivedResults(2) = {}
    /\ page.recognitionResults[1].text # ""
    /\ page.recognitionResults[3].text = ""
    /\ Len(page.result.textBlocks) = 3


\* C24: the number of recognition workers is clamp(hardwareConcurrency, 2, 8):
\* it lies in 2..8, equals the reported value when that lies in 2..8, and is
\* 4 when no value is reported.
C24_WorkerCountClamped ==
    LET hc == partition.hardwareConcurrency
        N == partition.N
    IN  /\ 2 <= N /\ N <= 8
        /\ hc \in 2..8 => N = hc
        /\ hc = 0 - 1 => N = 4
        /\ hc > 8 => N = 8
        /\ (hc # 0 - 1 /\ hc < 2) => N = 2

\* sixteen processors are reported and a page of nine regions was cut into
\* the job lists of eight workers
C24_Witness ==
    /\ partition.pc = "dispatched"
    /\ partition.hardwareConcurrency = 16
    /\ Len(partition.chunks) = 8
    /\ Len(partition.textRegions) = 9
(***************************************************************************)
(* Claims about the batch loop of App.runOCR.                               *)
(***************************************************************************)

\* the LAYOUT_DETECT messages in the inbox of the OCR worker
LayoutDetectIds(inbox) ==
    {inbox[k].id : k \in {j \in 1..Len(inbox) : inbox[j].type = "LAYOUT_DETECT"}}

\* C13: in a batch run, a step that calls processImage for page j+1, and so
\* posts the LAYOUT_DETECT of page j+1, is taken only when the promise of
\* page j has resolved or rejected: no LAYOUT_DETECT of a later page is
\* posted while the page before it is pending.
C13_NextPageAfterSettlement ==
    [][\A j \in PageIds :
          ((j + 1) \in LayoutDetectIds(ocrInbox') \ LayoutDetectIds(ocrInbox)) =>
              /\ page.id = j
              /\ page.promise \in {"resolved", "rejected"}
              /\ page'.id = j + 1
              /\ page'.promise = "pending"]_vars

\* the LAYOUT_DETECT of the second page is in the inbox of the OCR worker
\* after the first page was rejected
C13_Witness ==
    /\ batch.called = <<0, 1>>
    /\ batch.outcomes = <<"rejected">>
    /\ page.id = 1
    /\ page.promise = "pending"
    /\ 1 \in LayoutDetectIds(ocrInbox)

\* C14: for a batch of k pages, whichever pages reject, processImage is
\* called with the page indices 0, 1, ... in input order, each once, and when
\* the loop has finished it has been called for all k pages; the session
\* results are the pages whose promise resolved, in input order.
C14_BatchContinuesAfterFailure ==
    LET called == batch.called
        outcomes == batch.outcomes
    IN  /\ called = [k \in 1..Len(called) |-> k - 1]
        /\ Len(called) <= batch.total
        /\ batch.pc = "awaiting" => Len(outcomes) = Len(called) - 1
        /\ batch.pc = "finished" =>
              Len(called) = batch.total /\ Len(outcomes) = batch.total
        /\ sessionResults =
              SelectSeq(SubSeq(called, 1, Len(outcomes)),
                        LAMBDA p : outcomes[p + 1] = "resolved")

\* a batch of two pages has finished: the first page rejected, the second
\* resolved and is the only session result
C14_Witness ==
    /\ batch.pc = "finished"
    /\ batch.total = 2
    /\ batch.called = <<0, 1>>
    /\ batch.outcomes = <<"rejected", "resolved">>
    /\ sessionResults = <<1>>

(***************************************************************************)
(* Claims about the message handlers of the workers.                        *)
(***************************************************************************)

\* the last message posted with the id of job r
LastPosted(r) == ocrJob.posted[r][Len(ocrJob.posted[r])]

\* the messages of the given types among those posted with the id of job r
PostedOfType(r, types) ==
    {k \in 1..Len(ocrJob.posted[r]) : ocrJob.posted[r][k].type \in types}

\* C15: when inference or decoding throws for jobs of a REC_PROCESS message
\* whose recognizers are initialized, the worker answers REC_COMPLETE with
\* one result per job, in job order and with the job's id: {text: '',
\* confidence: 0} for a job that threw, the text read for every other job.
\* In the same way an OCR_PROCESS job whose regions meet initialized
\* recognizers ends with OCR_COMPLETE holding one block per region, with the
\* empty text for a region that threw and the text read for every other.
C15_RecognitionFailureAbsorbed ==
    /\ (recJob.pc = "answered"
          /\ \A j \in 1..Len(recJob.jobs) :
                RecognizerInitialized(
                    selectRecognizer(recJob.jobs[j].charCountCategory), recJob.k)) =>
          /\ recJob.answer.type = "REC_COMPLETE"
          /\ Len(recJob.answer.results) = Len(recJob.jobs)
          /\ \A j \in 1..Len(recJob.jobs) :
                LET r == recJob.answer.results[j]
                    job == recJob.jobs[j]
                IN  /\ r.id = job.id
                    /\ j \in recJob.failing => r.text = "" /\ r.confidence = 0
                    /\ j \notin recJob.failing =>
                          r.text = TextOf(job.croppedImageData) /\ r.confidence = 90
    /\ \A r \in OcrJobIds :
          LET run == ocrJob.run[r] IN
            /\ \A i \in 1..Len(run.recognitionResults) :
                  run.recognitionResults[i].text =
                      (IF i \in run.threw THEN ""
                       ELSE TextOf(run.textRegions[i].bbox))
            /\ (run.pc = "returned" /\ run.threw # {}
                  /\ \A k \in PostedOfType(r, {"OCR_ERROR"}) :
                        ocrJob.posted[r][k].error # "Text recognizer not initialized") =>
                  /\ PostedOfType(r, {"OCR_ERROR"}) = {}
                  /\ LastPosted(r).type = "OCR_COMPLETE"
                  /\ Len(LastPosted(r).textBlocks) = Len(run.textRegions)
                  /\ \A i \in 1..Len(run.textRegions) :
                        \E b \in Range(LastPosted(r).textBlocks) :
                           /\ b.bbox = run.textRegions[i].bbox
                           /\ b.text = run.recognitionResults[i].text

\* a REC_PROCESS of two jobs whose first inference threw was answered, and an
\* OCR_PROCESS page of two regions whose second inference threw has completed
C15_Witness ==
    /\ recJob.pc = "answered"
    /\ recJob.answer.type = "REC_COMPLETE"
    /\ Len(recJob.jobs) = 2
    /\ recJob.failing = {1}
    /\ recJob.answer.results[1].text = ""
    /\ recJob.answer.results[2].text # ""
    /\ ocrJob.run[1].pc = "returned"
    /\ ocrJob.run[1].threw = {2}
    /\ LastPosted(1).type = "OCR_COMPLETE"
    /\ Len(LastPosted(1).textBlocks) = 2
    /\ LastPosted(1).txt = "a"

\* C16: when post-processing the output of the layout model throws, detect
\* returns an empty list, and the job posts no OCR_ERROR and ends with
\* OCR_COMPLETE carrying no block and the empty text.
C16_PostprocessFailureIsEmptyPage ==
    \A r \in OcrJobIds :
        ocrJob.run[r].postprocessThrew =>
            /\ ocrJob.run[r].textRegions = <<>>
            /\ ocrJob.run[r].pc = "returned"
            /\ PostedOfType(r, {"OCR_ERROR"}) = {}
            /\ PostedOfType(r, {"OCR_COMPLETE"}) = {Len(ocrJob.posted[r])}
            /\ LastPosted(r).textBlocks = <<>>
            /\ LastPosted(r).txt = ""

\* the second job met an exception in post-processing and has completed,
\* after the first job completed with a block
C16_Witness ==
    /\ ocrJob.run[2].postprocessThrew
    /\ ocrJob.run[2].pc = "returned"
    /\ LastPosted(2) = OcrComplete(<<>>, "")
    /\ ocrJob.run[1].pc = "returned"
    /\ Len(ocrJob.run[1].textRegions) = 1
    /\ LastPosted(1).type = "OCR_COMPLETE"

\* C20: for every OCR_PROCESS job j, at most one OCR_COMPLETE or OCR_ERROR
\* with id j has been posted at any time, nothing with id j is posted after
\* it (so every OCR_PROGRESS with id j comes before it), nothing with id j
\* is posted before the job is taken, and a job whose handler has returned
\* has posted exactly one of the two.
C20_OneTerminalMessageLast ==
    \A j \in OcrJobIds :
        LET terminal == PostedOfType(j, {"OCR_COMPLETE", "OCR_ERROR"})
        IN  /\ Cardinality(terminal) <= 1
            /\ \A k \in terminal : k = Len(ocrJob.posted[j])
            /\ ocrJob.run[j].pc = "queued" => ocrJob.posted[j] = <<>>
            /\ ocrJob.run[j].pc = "returned" <=> Cardinality(terminal) = 1

\* both jobs have returned, one with OCR_COMPLETE after the progress of two
\* regions, the other with OCR_ERROR after progress messages
C20_Witness ==
    /\ ocrJob.run[1].pc = "returned"
    /\ ocrJob.run[2].pc = "returned"
    /\ LastPosted(1).type = "OCR_COMPLETE"
    /\ Len(ocrJob.run[1].textRegions) = 2
    /\ Cardinality(PostedOfType(1, {"OCR_PROGRESS"})) = 10
    /\ LastPosted(2).type = "OCR_ERROR"
    /\ Cardinality(PostedOfType(2, {"OCR_PROGRESS"})) >= 2


\* C30: a recognition worker handles the jobs of one REC_PROCESS in the
\* order received and answers with exactly one message: a REC_COMPLETE whose
\* results have the length of the job list with results[k].id = jobs[k].id,
\* or a REC_ERROR; never both and never a partial result list.
C30_OneAnswerInJobOrder ==
    /\ Len(recJob.handled) <= Len(recJob.jobs)
    /\ \A k \in 1..Len(recJob.handled) : recJob.handled[k] = recJob.jobs[k].id
    /\ Len(recJob.posted) = (IF recJob.pc = "answered" THEN 1 ELSE 0)
    /\ \A m \in 1..Len(recJob.posted) :
          LET msg == recJob.posted[m]
          IN  /\ msg.type \in {"REC_COMPLETE", "REC_ERROR"}
              /\ msg.type = "REC_ERROR" => msg.results = <<>>
              /\ msg.type = "REC_COMPLETE" =>
                    /\ Len(msg.results) = Len(recJob.jobs)
                    /\ Len(recJob.handled) = Len(recJob.jobs)
                    /\ \A k \in 1..Len(recJob.jobs) : msg.results[k].id = recJob.jobs[k].id
              /\ msg = RecProcessAnswer(recJob.jobs, recJob.k, recJob.failing, 0)

\* a REC_PROCESS with the jobs 0 and 2 of a page was answered by one
\* REC_COMPLETE with the results 0 and 2
C30_Witness ==
    /\ recJob.pc = "answered"
    /\ Len(recJob.jobs) = 2
    /\ recJob.handled = <<0, 2>>
    /\ Len(recJob.posted) = 1
    /\ recJob.posted[1].type = "REC_COMPLETE"
    /\ recJob.posted[1].results[2].id = 2
(***************************************************************************)
(* Claims about the failure modes of loadModel.                             *)
(***************************************************************************)

\* C17: a loadModel call that has downloaded the bytes of its model does not
\* fail: it is writing them to the cache or has returned them, also when the
\* write to the cache fails.
C17_CacheWriteFailureNonFatal ==
    \A c \in Loads :
        loadCalls[c].data # Undefined =>
            /\ loadCalls[c].pc \in {"save", "returned"}
            /\ loadCalls[c].pc = "returned" /\ loadCalls[c].source = "download" =>
                  loadCalls[c].data = ServerBytes(loadCalls[c].modelType)

\* C18: a loadModel call whose download was answered with a non-success
\* status or with content-type text/html is rejected with an error, holds no
\* bytes and has put no entry into the cache; and no step of a call that has
\* put no entry changes the cache, so the entry of its name is as it was
\* before the call.
C18_DownloadFailureLeavesCache ==
    /\ [](\A c \in Loads :
            loadCalls[c].response \in {"http error", "text/html"} =>
               /\ loadCalls[c].pc = "rejected"
               /\ loadCalls[c].error # ""
               /\ loadCalls[c].data = Undefined
               /\ loadCalls[c].saved = NoEntry)
    /\ [][\A c \in Loads :
            (loadCalls'[c] # loadCalls[c] /\ loadCalls'[c].saved = NoEntry) =>
                modelCache' = modelCache]_vars

\* a call for a model whose entry is of an older version was answered with
\* text/html and is rejected; the older entry is still in the cache
C18_Witness ==
    /\ loadCalls[1].pc = "rejected"
    /\ loadCalls[1].response = "text/html"
    /\ loadCalls[1].modelType = "layout"
    /\ loadCalls[1].seen = [name |-> "layout", data |-> OlderBytes("layout"),
                            version |-> OlderVersion]
    /\ modelCache["layout"] = loadCalls[1].seen
    /\ loadCalls[2].pc = "idle"


\* call c has returned the bytes it downloaded, and the store still holds the
\* entry it saved
SavedBy(c, name) ==
    /\ loadCalls[c].pc = "returned"
    /\ loadCalls[c].source = "download"
    /\ loadCalls[c].modelType = name
    /\ modelCache[name] = loadCalls[c].saved

\* C28: after loadModel(name) succeeded by downloading, a later
\* loadModel(name) under the same MODEL_VERSION returns the same bytes from
\* the cache, downloads nothing and reports progress 1.0. The later call is
\* one whose read of the cache succeeds on the entry the first call saved.
C28_CacheRoundTrip ==
    [][\A c \in Loads, d \in Loads :
          /\ (loadCalls[c].pc = "save" /\ loadCalls'[c].pc = "returned") =>
                /\ modelCache'[loadCalls[c].modelType].data = loadCalls'[c].data
                /\ modelCache'[loadCalls[c].modelType].version = MODEL_VERSION
          /\ (/\ c # d
              /\ loadCalls[d].pc = "cache"
              /\ SavedBy(c, loadCalls[d].modelType)
              /\ loadCalls'[d].pc \notin {"cache", "rejected"}) =>
                /\ loadCalls'[d].pc = "returned"
                /\ loadCalls'[d].data = loadCalls[c].data
                /\ loadCalls'[d].source = "cache"
                /\ loadCalls'[d].response = ""
                /\ loadCalls'[d].progress = <<100>>]_vars

\* the first call has downloaded and saved the layout model, the second call
\* has returned the same bytes from the cache
C28_Witness ==
    /\ SavedBy(1, "layout")
    /\ loadCalls[1].seen = NoEntry
    /\ loadCalls[2].pc = "returned"
    /\ loadCalls[2].modelType = "layout"
    /\ loadCalls[2].source = "cache"
    /\ loadCalls[2].seen = loadCalls[1].saved
    /\ loadCalls[2].data = loadCalls[1].data
    /\ loadCalls[2].progress = <<100>>
(***************************************************************************)
(* The status of the page job.                                              *)
(***************************************************************************)
\* the order idle, loading_model, processing, done
StatusRank(status) ==
    CASE status = "idle" -> 0
      [] status = "loading_model" -> 1
      [] status = "processing" -> 2
      [] status = "done" -> 3
      [] OTHER -> 4

\* the step makes isReady true (checkBothReady sets the initial job state)
ReadyResetStep == ~isReady /\ isReady'

\* the step calls processImage (runOCR calls resetState right before)
ProcessImageStartStep == batch'.called # batch.called

\* C19: jobState.status changes only forward along idle, loading_model,
\* processing, done, or to error, or is set back to idle or processing by
\* resetState, by the ready reset or by the start of a new processImage job;
\* no message of a worker moves it from processing, done or error back to
\* loading_model.
C19_StatusOnlyForward ==
    [][LET s == jobState.status
           t == jobState'.status
       IN  \/ s = t
           \/ t = "error"
           \/ s # "error" /\ StatusRank(s) < StatusRank(t)
           \/ t = "idle" /\ ReadyResetStep
           \/ t = "processing" /\ ProcessImageStartStep]_vars


\* the step delivers a message the OCR worker emits for the region job
RegionMessageStep == ocrProcess' # ocrProcess

\* C32: processRegion never changes jobState: neither the call nor any
\* OCR_PROGRESS, OCR_COMPLETE or OCR_ERROR message the OCR worker emits for
\* the region job changes jobState.
C32_RegionJobKeepsJobState ==
    [][(RegionMessageStep \/ regionJob'.promise # regionJob.promise)
          => jobState' = jobState]_vars
(***************************************************************************)
(* Initialization of the workers.                                           *)
(***************************************************************************)
\* the runs of the OCR worker that await the creation of a session
ConstructingRuns == {r \in OcrRuns : ocrJob.run[r].pc \in Range(InstanceOrder)}

\* C21: inside one worker at most one inference-session construction is in
\* progress at any time, also when an OCR_PROCESS arrives while an earlier
\* initialization still awaits a download or a session construction.
C21_OneSessionConstruction == Cardinality(ConstructingRuns) <= 1

\* the step is the catch of the initialize that run r called
InitFails(r) ==
    /\ ocrJob.run[r].pc \in InitPcs
    /\ ocrJob'.run[r].pc = "returned"
    /\ ocrJob'.initErrors = ocrJob.initErrors + 1

\* the OCR_PROCESS job r ends with OCR_ERROR and has posted no OCR_COMPLETE
EndsWithError(o, r) ==
    /\ o.posted[r] # <<>>
    /\ o.posted[r][Len(o.posted[r])].type = "OCR_ERROR"
    /\ \A k \in 1..Len(o.posted[r]) : o.posted[r][k].type # "OCR_COMPLETE"

\* C22: when loading or constructing one of the four models fails,
\* initialize posts OCR_ERROR, isInitialized stays false, and the OCR_PROCESS
\* job that triggered the initialization ends with OCR_ERROR, never with
\* OCR_COMPLETE.
C22_InitFailureFailsJob ==
    [][\A r \in OcrRuns :
          InitFails(r) =>
              /\ ~ocrJob'.isInitialized
              /\ r \in OcrJobIds => EndsWithError(ocrJob', r)]_vars

\* C27: initialize is idempotent once initialized: a call on an initialized
\* LayoutDetector, TextRecognizer or OCRWorker creates no session, downloads
\* nothing, posts no message and leaves the state of the object unchanged.
C27_InitializeIdempotent ==
    [][(initObject.initialized /\ Len(initObject'.calls) = Len(initObject.calls) + 1) =>
          /\ initObject' = [initObject EXCEPT !.calls = Append(@, Returned)]
          /\ initObject'.sessions = initObject.sessions
          /\ initObject'.downloads = initObject.downloads
          /\ initObject'.fetches = initObject.fetches
          /\ initObject'.posted = initObject.posted]_vars

\* an OCR worker was initialized by its first call (four downloads, four
\* sessions, six messages) and initialize has returned twice more
C27_Witness ==
    /\ initObject.kind = "OCRWorker"
    /\ initObject.initialized
    /\ initObject.calls = <<Returned, Returned, Returned>>
    /\ initObject.sessions = 4
    /\ initObject.downloads = 4
    /\ initObject.posted = 6


\* the errors detect and recognizeCropped throw on an instance without session
NotInitializedErrors ==
    {OcrError("Layout detector not initialized"),
     OcrError("Text recognizer not initialized")}

\* C34: in every state of the OCR worker, isInitialized = true implies that
\* layoutDetector and the three recognizers hold an instance with a
\* constructed session, for every interleaving of INITIALIZE and OCR_PROCESS
\* messages; hence no job fails with a not-initialized error.
C34_InitializedMeansAllConstructed ==
    /\ ocrJob.isInitialized =>
          \A name \in Range(InstanceOrder) : ocrJob.instance[name].initialized
    /\ \A r \in OcrJobIds :
          Range(ocrJob.posted[r]) \cap NotInitializedErrors = {}
(***************************************************************************)
(* The regions of the layout detector.                                      *)
(***************************************************************************)
\* C23: every TextRegion detect returns has charCountCategory in {1, 2, 3},
\* and when the model has no charCountCategory output every region gets
\* category 1.
C23_CategoryInRange ==
    layout.pc = "detected" =>
        \A k \in 1..Len(layout.detections) :
            /\ layout.detections[k].charCountCategory \in {1, 2, 3}
            /\ layout.output.outputNames <= 3 =>
                  layout.detections[k].charCountCategory = 1

(***************************************************************************)
(* Ownership of the pixel buffers.                                          *)
(***************************************************************************)
\* C25: processImage never gives up the pixel buffer of the page: the image
\* goes to the OCR worker without a transfer list and stays readable during
\* and after the pipeline; only the buffers of the crops are transferred to
\* the recognition workers, and the hook reads no crop after posting it.
C25_PageBufferRetained ==
    /\ page.imageData = "attached"
    /\ ~page.readDetached
    /\ page.layout = "regions" =>
          /\ Len(page.croppedImages) = Len(page.textRegions)
          /\ \A k \in 1..Len(page.croppedImages) : page.croppedImages[k] = "detached"

\* the second page of a batch, of three regions, has been resolved after its
\* crops went to the recognition workers
C25_Witness ==
    /\ page.id = 1
    /\ page.promise = "resolved"
    /\ page.layout = "regions"
    /\ Len(page.croppedImages) = 3
    /\ page.imageData = "attached"
(***************************************************************************)
(* Termination of a worker.                                                 *)
(***************************************************************************)
\* C26: once a worker has handled TERMINATE or REC_TERMINATE it begins no
\* further job, while a job already in flight may finish.
C26_NoJobAfterTerminate ==
    /\ lifecycle.begunAfter = {}
    /\ lifecycle.handled => lifecycle.inbox = <<>>

\* a terminate message was handled while one job was in flight and another
\* was queued behind it: the queued job was discarded, the one in flight has
\* finished afterwards
C26_Witness ==
    /\ lifecycle.handled
    /\ lifecycle.discarded # {}
    /\ lifecycle.finishedAfter # {}
    /\ lifecycle.begunAfter = {}
(***************************************************************************)
(* The result of a page.                                                    *)
(***************************************************************************)
\* a block without its readingOrder
BlockContent(b) == [bbox |-> b.bbox, charCountCategory |-> b.charCountCategory,
                    text |-> b.text]

\* how often a content occurs among the blocks
ContentCount(blocks, c) ==
    Cardinality({k \in 1..Len(blocks) : BlockContent(blocks[k]) = c})

\* the texts of the first k blocks that are not empty, each on its own line
RECURSIVE LinesUpTo(_, _)
LinesUpTo(blocks, k) ==
    IF k = 0 THEN ""
    ELSE LET before == LinesUpTo(blocks, k - 1)
             t == blocks[k].text
         IN  IF t = "" THEN before
             ELSE IF before = "" THEN t
             ELSE before \o "\n" \o t

\* C29: in a page result textBlocks keeps every recognized block, also those
\* with empty text, one block per detected region, and fullText is the texts
\* of the blocks with non-empty text, in reading order, joined by a newline.
C29_BlocksKeptTextJoined ==
    (page.promise = "resolved" /\ page.layout = "regions") =>
        LET blocks == page.result.textBlocks
            recognized == page.recognitionResults
        IN  /\ Len(blocks) = Len(page.textRegions)
            /\ Len(recognized) = Len(page.textRegions)
            /\ \A k \in 1..Len(recognized) :
                  ContentCount(blocks, BlockContent(recognized[k]))
                     = ContentCount(recognized, BlockContent(recognized[k]))
            /\ \A k \in 1..Len(blocks) : blocks[k].readingOrder = k
            /\ page.result.fullText = LinesUpTo(blocks, Len(blocks))

\* a page of three regions was resolved; the text of its second block is
\* empty and fullText has the two other texts
C29_Witness ==
    /\ page.promise = "resolved"
    /\ page.layout = "regions"
    /\ Len(page.result.textBlocks) = 3
    /\ page.result.textBlocks[1].text # ""
    /\ page.result.textBlocks[2].text = ""
    /\ page.result.textBlocks[3].text # ""
    /\ page.result.fullText = "a\na"
(***************************************************************************)
(* Answers of recognition workers and the page that consumes them.          *)
(***************************************************************************)
\* C31: a REC_COMPLETE is consumed only as the answer to the REC_PROCESS that
\* caused it: the results a dispatch promise of the page in flight resolved
\* with were produced for a REC_PROCESS of this page, never for the chunk of
\* an earlier page, also when that earlier page was rejected by the REC_ERROR
\* of another worker while this worker was still recognizing.
C31_CompleteAnswersOwnProcess ==
    \A w \in DOMAIN page.chunkPage : page.chunkPage[w] \in {-1, page.id}

\* C33: no REC_PROCESS is sent to a recognition worker before that worker
\* has reported REC_READY: a worker that has a REC_PROCESS in its inbox, or
\* whose onmessage is a handler of dispatch, has finished REC_INIT with
\* REC_READY, so no dispatch replaces the REC_READY handler of a worker that
\* is still initializing.
C33_NoProcessBeforeReady ==
    \A w \in 1..nRecWorkers :
        (\/ \E k \in 1..Len(recInbox[w]) : recInbox[w][k].type = "REC_PROCESS"
         \/ recOnmessage[w].kind = "dispatch")
            => recLoaded[w].pc = "ready"

(***************************************************************************)
(* The batch loops of App.                                                  *)
(***************************************************************************)
\* the batch loops that have not ended: awaiting processImage or saveRun
ActiveLoops == {l \in 1..Len(app.loops) : app.loops[l].pc # "finished"}

\* C35: at most one batch loop (runOCR) is active at any time: for every
\* sequence of the user's actions (start, clear, load files, start again) no
\* new batch starts while an earlier batch loop is still awaiting or has
\* pages left.
C35_OneBatchLoop == Cardinality(ActiveLoops) <= 1

(***************************************************************************)
(* Progress.                                                                *)
(***************************************************************************)
\* C36: every processImage call eventually settles: once LAYOUT_DETECT is
\* posted for a page (its promise is pending), the promise is eventually
\* resolved or rejected, when every worker finishes handling each message
\* it receives.
C36_ProcessImageSettles ==
    (page.promise = "pending") ~> ProcessImageSettled(page)

\* the initialization of the OCR worker or of a recognition worker has failed
StartupFailed ==
    ocrInit = "failed" \/ \E w \in 1..nRecWorkers : recLoaded[w].pc = "failed"

\* C37: if the startup initialization of the OCR worker or of a recognition
\* worker fails (OCR_ERROR after INITIALIZE, REC_ERROR after REC_INIT),
\* jobState.status eventually becomes 'error'.
C37_StartupFailureShown == StartupFailed ~> (jobState.status = "error")

(***************************************************************************)
(* In-process recognition and worker-pool recognition.                      *)
(***************************************************************************)
\* C38: for the same list of regions and the same output of the recognizer
\* for each region, the loop of processOCR and runRecognition with N workers
\* produce the same list of text blocks before reading-order assembly: the
\* same length, the same geometry and category, the same text, and
\* readingOrder = position + 1.
C38_InProcessEqualsPool ==
    (equiv.i = Len(equiv.textRegions) /\ equiv.pool.pc = "assembled") =>
        /\ equiv.pool.recognitionResults = equiv.recognitionResults
        /\ Len(equiv.recognitionResults) = Len(equiv.textRegions)
        /\ \A k \in 1..Len(equiv.textRegions) :
              LET b == equiv.pool.recognitionResults[k] IN
                /\ b.bbox = equiv.textRegions[k].bbox
                /\ b.charCountCategory = equiv.textRegions[k].charCountCategory
                /\ b.text = (IF k \in equiv.threw THEN ""
                             ELSE TextOf(equiv.textRegions[k].bbox))
                /\ b.readingOrder = k

\* three regions on two workers, the second worker answered first, the
\* inference of the second region threw
C38_Witness ==
    /\ equiv.i = 3
    /\ equiv.pool.pc = "assembled"
    /\ equiv.N = 2
    /\ equiv.answered = <<2, 1>>
    /\ equiv.threw = {2}
    /\ equiv.pool.recognitionResults[1].text = "a"
    /\ equiv.pool.recognitionResults[2].text = ""
    /\ equiv.pool.recognitionResults[3].text = "a"

(***************************************************************************)
(* Job messages and job ids.                                                *)
(***************************************************************************)
\* the step is the OCR worker answering a LAYOUT_DETECT whose id is not the
\* id of the page job in flight
OtherPageAnswerStep ==
    /\ ocrInbox # <<>>
    /\ ocrInbox' = Tail(ocrInbox)
    /\ Head(ocrInbox).type = "LAYOUT_DETECT"
    /\ Head(ocrInbox).id # page.id

WithinVocabulary(indices, vocabulary) ==
    SelectSeq(indices, LAMBDA k : k <= Len(vocabulary))

(***************************************************************************)
(* C40. decodeOutput never reads outside the vocabulary: every character    *)
(* of the decoded text is vocabulary[k-1] for an arg-max index k of the     *)
(* output with 4 <= k <= the vocabulary's length; an index beyond the       *)
(* vocabulary emits nothing, the text is the one decoded from the indices   *)
(* within the vocabulary alone; and with an empty vocabulary, as when the   *)
(* configuration resource was unavailable, the text is empty for every      *)
(* input.                                                                   *)
(***************************************************************************)
C40_InsideVocabulary ==
    decoder.pc = "decoded" =>
        /\ decoder.outputs.present =>
              LET indices == ArgMaxIndices(decoder.outputs)
                  text == decoder.result.text
              IN  /\ \A j \in 1..Len(text) :
                        \E p \in 1..Len(indices) :
                            /\ indices[p] >= 4
                            /\ indices[p] <= Len(decoder.charList)
                            /\ text[j] = decoder.charList[indices[p]]
                  /\ text = Trim(MapVocabulary(
                               CollapseRuns(WithinVocabulary(
                                   DropControl(CutAtFirstZero(indices)), decoder.charList)),
                               decoder.charList))
        /\ ~decoder.resource.ok => decoder.charList = <<>>
        /\ decoder.charList = <<>> => decoder.result.text = <<>>

\* over a vocabulary of four characters the indices [4, 5, 4] decode to the
\* last character once: 5 is beyond the vocabulary and emits nothing
C40_Witness ==
    /\ decoder.pc = "decoded"
    /\ decoder.outputs.present
    /\ Len(decoder.charList) = 4
    /\ ArgMaxIndices(decoder.outputs) = <<4, 5, 4>>
    /\ decoder.result.text = <<decoder.charList[4]>>
====
